---------------------------- MODULE Spec2Model ----------------------------
(***************************************************************************)
(* Model of the lecture-date annotator of udemy-show-release-date:         *)
(*   - normalizeTitle, getContentItems, matchDomToApi (forward-sync        *)
(*     matcher with bounded lookahead), injectDateIntoElement, injectDates *)
(*     of src/src/entrypoints/lecture-date.content.ts (lines 157-442);     *)
(*   - formatDateString of src/src/utils/udemy-api.ts;                     *)
(*   - the reactive driver of main(): fetch, MutationObserver, debounce.   *)
(*                                                                         *)
(* Two specifications:                                                     *)
(*   SpecMatch  the exported pure function matchDomToApi, run one loop     *)
(*              iteration per step on inputs drawn from bounded sets;      *)
(*   Spec       the content script on a page: the host page mutates the    *)
(*              curriculum rows, the observer debounces, a pass runs       *)
(*              injectDates to completion.                                 *)
(*                                                                         *)
(* Array indices are kept 0-based as in the source (apiIndex, foundIndex); *)
(* apiItems[k] of the source is apiItems[k + 1] here.                      *)
(***************************************************************************)
EXTENDS Integers, Sequences, FiniteSets, TLC

VARIABLES
    \* ---- matchDomToApi run step by step (SpecMatch) ----
    mpc,        \* "unused" | "loop" | "done"
    mDom,       \* argument domItems
    mApi,       \* argument apiItems
    domIndex,   \* 0-based position of the for-of iterator over domItems
    apiIndex,   \* local variable apiIndex
    matched,    \* local variable matched
    lastStep,   \* history: what the last loop iteration did
    \* ---- the content script on a page (Spec) ----
    pc,         \* position of main(): "start" | "fetching" | "armed", or how
                \* it returned: "noCourse" | "failed" | "off" (empty list)
    tz,         \* the environment's local-time offset, in hours east of UTC
    hostQuiet,  \* TRUE iff the host page has stopped mutating the DOM
    lectures,   \* closure variable lectures of main()
    dom,        \* the curriculum rows of the page, in document order
    stats,      \* the curriculum-stats container and the widgets in it
    headStyles, \* number of style elements this script appended to document.head
    timeout,    \* TRUE iff the debounce timer is pending
    timers,     \* number of timers of this script pending in the event loop
    due,        \* TRUE iff the 100 ms of the pending timer have elapsed
    invalidated,\* TRUE iff the page view was invalidated or navigated away from
    startup,    \* history: the initial runInjection() of main(): "none" |
                \* "pending" (its timer runs) | "postponed" (a mutation callback
                \* replaced its timer) | "done" (a pass has run)
    records,    \* TRUE iff mutation records await delivery to the observer
    lastPass,   \* history: what the last pass did; reset by every host change
    \* ---- the course-date content script on a page (SpecCourse) ----
    cpc,          \* position of its main(): "start" | "fetching" | "resuming" |
                  \* "armed", or how it ended: "noCourse" | "rejected"
    fetchResult,  \* how fetchCourseCreationDate settled
    outcome,      \* the promise main() returned
    cDateString,  \* closure variable dateString of the course-date main()
    courseAnchor, \* the element matching ANCHOR_SELECTOR: "none" | "present" |
                  \* "root" (the document element: it has no parentElement)
    dateElements, \* number of elements with id DATE_ELEMENT_ID in the document
    observing,    \* TRUE iff the MutationObserver is connected
    cRecords,     \* TRUE iff mutation records await delivery to it
    unloaded,     \* TRUE iff beforeunload has been dispatched
    \* ---- one call of fetchCurriculumItems (SpecFetch) ----
    fpc,          \* "unused" | "loop" (at the while test) | "awaiting" (a
                  \* request is in flight) | "done" | "rejected"
    fPages,       \* the server: page k holds results and the next URL
    url,          \* local variable url: 0 is null, k the URL of page k
    allResults,   \* local variable allResults
    requests,     \* history: the URLs requested so far, in order
    fReturn       \* how the promise of the call settled

mvars == <<mpc, mDom, mApi, domIndex, apiIndex, matched, lastStep>>
svars == <<pc, tz, hostQuiet, lectures, dom, stats, headStyles, timeout, timers, due, invalidated,
           startup, records, lastPass>>
cvars == <<cpc, fetchResult, outcome, cDateString, courseAnchor, dateElements,
           observing, cRecords, unloaded>>
fvars == <<fpc, fPages, url, allResults, requests, fReturn>>
vars == <<mvars, svars, cvars, fvars>>

---------------------------------------------------------------------------
(* Bounds of the model.                                                    *)

\* longest domItems argument drawn against an arbitrary apiItems
MaxDom == 3
\* longest domItems argument drawn against a long apiItems
MaxLongDom == 2
\* longest arbitrary apiItems argument (titles with duplicates and variants)
MaxShortApi == 3
\* longest apiItems argument with pairwise distinct titles
MaxLongApi == 12
\* most curriculum rows on the page
MaxRows == 2
\* longest curriculum list the API returns
MaxItems == 2
MaxTitleLen == 4
MaxFieldApi == 2

---------------------------------------------------------------------------
(* Titles: strings are sequences of one-character strings.                 *)

\* the lookahead bound of matchDomToApi: for (offset = 1; offset <= 10; ...)
LookaheadWindow == 10

Whitespace == {" ", "\t"}

LowerLetters == <<"a", "b", "c", "d", "e", "f", "g", "h", "i", "j",
                  "k", "l", "m", "n", "o", "p">>
UpperLetters == <<"A", "B", "C", "D", "E", "F", "G", "H", "I", "J",
                  "K", "L", "M", "N", "O", "P">>

\* the upper-case letters and their lower-case forms
LowerOf == [c \in {UpperLetters[k] : k \in 1..Len(UpperLetters)} |->
               LowerLetters[CHOOSE k \in 1..Len(UpperLetters) : UpperLetters[k] = c]]

\* String.prototype.toLowerCase, one character
ToLowerChar(c) == IF c \in DOMAIN LowerOf THEN LowerOf[c] ELSE c

toLowerCase(t) == [i \in 1..Len(t) |-> ToLowerChar(t[i])]

\* t.replace(/\s+/g, ' '): every maximal run of whitespace becomes one space
RECURSIVE CollapseFrom(_, _)
CollapseFrom(t, i) ==
    IF i > Len(t) THEN <<>>
    ELSE IF t[i] \notin Whitespace THEN <<t[i]>> \o CollapseFrom(t, i + 1)
    ELSE IF i > 1 /\ t[i - 1] \in Whitespace THEN CollapseFrom(t, i + 1)
    ELSE <<" ">> \o CollapseFrom(t, i + 1)

collapseWhitespace(t) == CollapseFrom(t, 1)

\* String.prototype.trim
trim(t) ==
    LET solid == {i \in 1..Len(t) : t[i] \notin Whitespace}
    IN  IF solid = {} THEN <<>>
        ELSE LET lo == CHOOSE i \in solid : \A j \in solid : i <= j
                 hi == CHOOSE i \in solid : \A j \in solid : j <= i
             IN  SubSeq(t, lo, hi)

\* a slip: the trim is left out
normalizeTitleUntrimmed(t) == collapseWhitespace(toLowerCase(t))

normalizeTitle(t) == trim(collapseWhitespace(toLowerCase(t)))

\* an API item that came without a title: item.title is undefined, and
\* normalizeTitle(undefined) throws a TypeError (undefined.toLowerCase)
NoTitle == <<"(undefined)">>

TitleMissing(apiItem) == apiItem.title = NoTitle

\* normalizeTitle tabulated over the spellings the inputs are drawn from
\* ("x a", "X\t A ", "X\t A", "xa"); the table is computed once
DrawnTitles ==
    UNION {{<<LowerLetters[k], " ", "a">>, <<UpperLetters[k], "\t", " ", "A", " ">>,
            <<UpperLetters[k], "\t", " ", "A">>, <<LowerLetters[k], "a">>} :
           k \in 1..Len(LowerLetters)} \cup {NoTitle, <<>>}

NormalizedTitles == [t \in DrawnTitles |-> normalizeTitle(t)]

Normalized(t) == IF t \in DrawnTitles THEN NormalizedTitles[t] ELSE normalizeTitle(t)

---------------------------------------------------------------------------
(* matchDomToApi                                                           *)

SetMin(S) == CHOOSE x \in S : \A y \in S : x <= y

\* a plausible slip: compare the titles as they are
IsMatchRaw(domItem, apiItem) == domItem.title = apiItem.title

\* a slip: the item's _class is consulted too
IsMatchLecture(domItem, apiItem) ==
    /\ Normalized(domItem.title) = Normalized(apiItem.title)
    /\ apiItem.class = "lecture"

\* normalizeTitle(domItem.title) === normalizeTitle(apiItems[k].title)
IsMatch(domItem, apiItem) ==
    Normalized(domItem.title) = Normalized(apiItem.title)

\* a slip of the loop bound: offset < 10
LookaheadOffsetsShort == 1..(LookaheadWindow - 1)

\* a slip of the loop bound the other way: offset <= 11
LookaheadOffsetsWide == 1..(LookaheadWindow + 1)

\* offsets the lookahead loop scans: for (let offset = 1; offset <= 10; offset++)
LookaheadOffsets == 1..LookaheadWindow

\* the inner for loop: foundIndex after the loop (-1 when nothing matched)
FoundIndex(domItem, apiItems, idx) ==
    LET hits == {offset \in LookaheadOffsets :
                    /\ idx + offset < Len(apiItems)
                    /\ IsMatch(domItem, apiItems[idx + offset + 1])}
    IN  IF hits = {} THEN -1 ELSE idx + SetMin(hits)

Pair(domItem, apiItem) == [element |-> domItem.element, apiItem |-> apiItem]

\* TRUE iff the loop body reads the title of an item that has none: the item
\* at the cursor, or an item the lookahead reaches before its first match
LoopThrows(domItem, apiItems, idx) ==
    \/ TitleMissing(apiItems[idx + 1])
    \/ /\ ~IsMatch(domItem, apiItems[idx + 1])
       /\ \E offset \in LookaheadOffsets :
            /\ idx + offset < Len(apiItems)
            /\ TitleMissing(apiItems[idx + offset + 1])
            /\ \A o \in 1..(offset - 1) : ~IsMatch(domItem, apiItems[idx + o + 1])

\* slips of the loop body
LoopBodyNoLookahead(domItem, apiItems, st) ==
    IF IsMatch(domItem, apiItems[st.apiIndex + 1])
    THEN [apiIndex |-> st.apiIndex + 1,
          matched  |-> Append(st.matched, Pair(domItem, apiItems[st.apiIndex + 1]))]
    ELSE st

LoopBodyKeepCursor(domItem, apiItems, st) ==
    IF IsMatch(domItem, apiItems[st.apiIndex + 1])
    THEN [apiIndex |-> st.apiIndex + 1,
          matched  |-> Append(st.matched, Pair(domItem, apiItems[st.apiIndex + 1]))]
    ELSE LET foundIndex == FoundIndex(domItem, apiItems, st.apiIndex)
         IN  IF foundIndex # -1
             THEN [apiIndex |-> st.apiIndex + 1,
                   matched  |-> Append(st.matched, Pair(domItem, apiItems[foundIndex + 1]))]
             ELSE st

LoopBodyAdvanceOnMiss(domItem, apiItems, st) ==
    IF IsMatch(domItem, apiItems[st.apiIndex + 1])
    THEN [apiIndex |-> st.apiIndex + 1,
          matched  |-> Append(st.matched, Pair(domItem, apiItems[st.apiIndex + 1]))]
    ELSE LET foundIndex == FoundIndex(domItem, apiItems, st.apiIndex)
         IN  IF foundIndex # -1
             THEN [apiIndex |-> foundIndex + 1,
                   matched  |-> Append(st.matched, Pair(domItem, apiItems[foundIndex + 1]))]
             ELSE [apiIndex |-> st.apiIndex + 1, matched |-> st.matched]

LoopBodyPairsAtCursor(domItem, apiItems, st) ==
    IF IsMatch(domItem, apiItems[st.apiIndex + 1])
    THEN [apiIndex |-> st.apiIndex + 1,
          matched  |-> Append(st.matched, Pair(domItem, apiItems[st.apiIndex + 1]))]
    ELSE LET foundIndex == FoundIndex(domItem, apiItems, st.apiIndex)
         IN  IF foundIndex # -1
             THEN [apiIndex |-> foundIndex + 1,
                   matched  |-> Append(st.matched, Pair(domItem, apiItems[st.apiIndex + 1]))]
             ELSE st

\* one iteration of the for-of loop after the break test has passed
\* (st.apiIndex < Len(apiItems)); st = [apiIndex, matched]
LoopBody(domItem, apiItems, st) ==
    IF IsMatch(domItem, apiItems[st.apiIndex + 1])
    THEN [apiIndex |-> st.apiIndex + 1,
          matched  |-> Append(st.matched, Pair(domItem, apiItems[st.apiIndex + 1]))]
    ELSE LET foundIndex == FoundIndex(domItem, apiItems, st.apiIndex)
         IN  IF foundIndex # -1
             THEN [apiIndex |-> foundIndex + 1,
                   matched  |-> Append(st.matched, Pair(domItem, apiItems[foundIndex + 1]))]
             ELSE st

\* the whole loop from DOM position d (1-based) on
RECURSIVE MatchFrom(_, _, _, _)
MatchFrom(domItems, apiItems, d, st) ==
    IF d > Len(domItems) \/ st.apiIndex >= Len(apiItems)
    THEN st.matched
    ELSE MatchFrom(domItems, apiItems, d + 1, LoopBody(domItems[d], apiItems, st))

\* TRUE iff the loop from DOM position d on throws
RECURSIVE ThrowsFrom(_, _, _, _)
ThrowsFrom(domItems, apiItems, d, st) ==
    IF d > Len(domItems) \/ st.apiIndex >= Len(apiItems) THEN FALSE
    ELSE \/ LoopThrows(domItems[d], apiItems, st.apiIndex)
         \/ ThrowsFrom(domItems, apiItems, d + 1, LoopBody(domItems[d], apiItems, st))

matchThrows(domItems, apiItems) ==
    ThrowsFrom(domItems, apiItems, 1, [apiIndex |-> 0, matched |-> <<>>])

\* the array the call returns; a call that throws hands its caller no pairs
matchDomToApi(domItems, apiItems) ==
    IF matchThrows(domItems, apiItems) THEN <<>>
    ELSE MatchFrom(domItems, apiItems, 1, [apiIndex |-> 0, matched |-> <<>>])

---------------------------------------------------------------------------
(* Inputs drawn for matchDomToApi.                                         *)

\* Title(k, 0) = "a a", Title(k, 1) = "A\t a " (same entry after
\* normalization), Title(k, 2) = "aa" (a different entry)
Title(k, v) ==
    CASE v = 0 -> <<LowerLetters[k], " ", "a">>
      [] v = 1 -> <<UpperLetters[k], "\t", " ", "A", " ">>
      [] OTHER -> <<LowerLetters[k], "a">>

ShortTitles == {Title(1, 0), Title(1, 1), Title(2, 0)}

SeqsUpTo(S, n) == UNION {[1..k -> S] : k \in 0..n}

\* CurriculumItem.created: absent, the empty string, an ISO-8601 timestamp
\* (UTC), or a string that is no timestamp
NoCreated == [kind |-> "absent", year |-> 0, month |-> 0, day |-> 0, hour |-> 0]
EmptyCreated == [kind |-> "empty", year |-> 0, month |-> 0, day |-> 0, hour |-> 0]
Iso(y, m, d, h) == [kind |-> "iso", year |-> y, month |-> m, day |-> d, hour |-> h]
Garbage == [kind |-> "garbage", year |-> 0, month |-> 0, day |-> 0, hour |-> 0]

MkDomItems(ts) == [i \in 1..Len(ts) |-> [element |-> i, title |-> ts[i]]]

MkApiItems(ts) ==
    [i \in 1..Len(ts) |->
        [id |-> i, class |-> "lecture", title |-> ts[i], created |-> NoCreated]]

\* arbitrary short inputs: duplicates, case and whitespace variants
ShortInput(d, a) ==
    /\ d \in SeqsUpTo(ShortTitles, MaxDom)
    /\ a \in SeqsUpTo(ShortTitles, MaxShortApi)
    /\ mDom = MkDomItems(d)
    /\ mApi = MkApiItems(a)

\* API lists of n pairwise distinct titles; the DOM rows are drawn from the
\* API's titles (in another spelling) and one title the API lacks
LongDomBound(n) == IF n <= MaxShortApi THEN MaxDom ELSE MaxLongDom

LongInput(d, n) ==
    /\ n \in 0..MaxLongApi
    /\ d \in SeqsUpTo(1..(n + 1), LongDomBound(n))
    /\ mDom = MkDomItems([i \in 1..Len(d) |-> Title(d[i], 1)])
    /\ mApi = MkApiItems([i \in 1..n |-> Title(i, 0)])

\* one row and one API item: the row's title is any string of at most
\* MaxTitleLen characters of TitleAlphabet, the item's a reference title
TitleAlphabet == {"a", "A", "b", " ", "\t"}

RawTitles == SeqsUpTo(TitleAlphabet, MaxTitleLen)

RefTitles == {<<"a", " ", "b">>, <<"a", "b">>, <<>>, <<" ", "A", "\t", "B", " ">>}

RawInput(d, a) ==
    /\ d \in RawTitles
    /\ a \in RefTitles
    /\ mDom = MkDomItems(<<d>>)
    /\ mApi = MkApiItems(<<a>>)

\* MaxFieldApi API items that also differ in _class and created, with
\* duplicate titles among them
ItemClasses == {"lecture", "quiz"}

FieldInput(d, a, cs) ==
    /\ d \in SeqsUpTo(ShortTitles, MaxFieldApi)
    /\ a \in [1..MaxFieldApi -> ShortTitles]
    /\ cs \in [1..MaxFieldApi -> ItemClasses]
    /\ mDom = MkDomItems(d)
    /\ mApi = [i \in 1..MaxFieldApi |->
                 [id |-> i, class |-> cs[i], title |-> a[i],
                  created |-> IF cs[i] = "quiz" THEN Iso(2023, 2, 15, 12)
                              ELSE NoCreated]]

IdleStep == [kind |-> "none", from |-> 0, found |-> -1]

---------------------------------------------------------------------------
(* SpecMatch: matchDomToApi, one loop iteration per step.                  *)

\* lastPass: the rows and the stats container the pass found (before,
\* statsBefore), whether no host change had happened since the pass before
\* it (quiet), the value of startup when its timer fired (trigger: "pending"
\* for the run main() scheduled, with no mutation callback since), the pairs
\* it matched, the elements the builder was called for
\* and those appended to, whether it appended the widget, whether it threw
NoPass == [ran |-> FALSE, quiet |-> FALSE, trigger |-> "none", before |-> <<>>,
           statsBefore |-> [present |-> FALSE, widgets |-> <<>>],
           matched |-> <<>>, built |-> <<>>, wrote |-> {},
           widget |-> FALSE, threw |-> FALSE]

NotSettled == [kind |-> "pending", created |-> NoCreated, error |-> "none"]

NoDate == [valid |-> FALSE, month |-> -1, year |-> -1]

NotReturned == [state |-> "pending", items |-> <<>>, error |-> "none"]

FetchIdle ==
    /\ fpc = "unused"
    /\ fPages = <<>>
    /\ url = 0
    /\ allResults = <<>>
    /\ requests = <<>>
    /\ fReturn = NotReturned

CourseIdle ==
    /\ cpc = "unused"
    /\ fetchResult = NotSettled
    /\ outcome = [state |-> "pending", error |-> "none"]
    /\ cDateString = NoDate
    /\ courseAnchor = "none"
    /\ dateElements = 0
    /\ observing = FALSE
    /\ cRecords = FALSE
    /\ unloaded = FALSE

SystemIdle ==
    /\ pc = "unused"
    /\ tz = 0
    /\ hostQuiet = FALSE
    /\ lectures = <<>>
    /\ dom = <<>>
    /\ stats = [present |-> FALSE, widgets |-> <<>>]
    /\ headStyles = 0
    /\ timeout = FALSE
    /\ timers = 0
    /\ due = FALSE
    /\ invalidated = FALSE
    /\ startup = "none"
    /\ records = FALSE
    /\ lastPass = NoPass

InitMatch ==
    /\ \/ \E d \in SeqsUpTo(ShortTitles, MaxDom), a \in SeqsUpTo(ShortTitles, MaxShortApi) :
            ShortInput(d, a)
       \/ \E n \in 0..MaxLongApi : \E d \in SeqsUpTo(1..(n + 1), LongDomBound(n)) :
            LongInput(d, n)
       \/ \E d \in RawTitles, a \in RefTitles :
            RawInput(d, a)
       \/ \E d \in SeqsUpTo(ShortTitles, MaxFieldApi) :
            \E a \in [1..MaxFieldApi -> ShortTitles], cs \in [1..MaxFieldApi -> ItemClasses] :
                FieldInput(d, a, cs)
    /\ mpc = "loop"
    /\ domIndex = 0
    /\ apiIndex = 0
    /\ matched = <<>>
    /\ lastStep = IdleStep
    /\ SystemIdle
    /\ CourseIdle
    /\ FetchIdle

\* for (const domItem of domItems) { if (apiIndex >= apiItems.length) break; ... }
MatchIterate ==
    /\ mpc = "loop"
    /\ domIndex < Len(mDom)
    /\ apiIndex < Len(mApi)
    /\ LET domItem == mDom[domIndex + 1]
           st == LoopBody(domItem, mApi, [apiIndex |-> apiIndex, matched |-> matched])
       IN  /\ apiIndex' = st.apiIndex
           /\ matched' = st.matched
           /\ lastStep' =
                [kind  |-> IF IsMatch(domItem, mApi[apiIndex + 1]) THEN "direct"
                           ELSE IF Len(st.matched) > Len(matched) THEN "lookahead"
                           ELSE "miss",
                 from  |-> apiIndex,
                 found |-> IF Len(st.matched) > Len(matched)
                           THEN st.apiIndex - 1 ELSE -1]
    /\ domIndex' = domIndex + 1
    /\ UNCHANGED <<mpc, mDom, mApi, svars, cvars, fvars>>

\* a slip: continue in place of break; the remaining rows are still visited
MatchBreakContinues ==
    /\ mpc = "loop"
    /\ domIndex < Len(mDom)
    /\ apiIndex >= Len(mApi)
    /\ domIndex' = domIndex + 1
    /\ UNCHANGED <<mpc, mDom, mApi, apiIndex, matched, lastStep, svars, cvars, fvars>>

\* if (apiIndex >= apiItems.length) break;
MatchBreak ==
    /\ mpc = "loop"
    /\ domIndex < Len(mDom)
    /\ apiIndex >= Len(mApi)
    /\ mpc' = "done"
    /\ UNCHANGED <<mDom, mApi, domIndex, apiIndex, matched, lastStep, svars, cvars, fvars>>

\* the iterator is exhausted: return matched
MatchReturn ==
    /\ mpc = "loop"
    /\ domIndex = Len(mDom)
    /\ mpc' = "done"
    /\ UNCHANGED <<mDom, mApi, domIndex, apiIndex, matched, lastStep, svars, cvars, fvars>>

NextMatch == MatchIterate \/ MatchBreak \/ MatchReturn

SpecMatch == InitMatch /\ [][NextMatch]_vars

\* the step-by-step run returns what the function computes
MatchRunAgrees == mpc = "done" => matched = matchDomToApi(mDom, mApi)

---------------------------------------------------------------------------
(* The date formatter and the element builder.                             *)

IsLeap(y) == (y % 4 = 0 /\ y % 100 # 0) \/ y % 400 = 0

DaysInMonth(y, m) ==
    IF m = 2 THEN (IF IsLeap(y) THEN 29 ELSE 28)
    ELSE IF m \in {4, 6, 9, 11} THEN 30 ELSE 31

\* new Date(dateString) read through getMonth() and getFullYear(): the
\* calendar month and year of the instant in the environment's local time
LocalMonthYear(c, tzOffset) ==
    LET h == c.hour + tzOffset
        shift == IF h < 0 THEN -1 ELSE IF h >= 24 THEN 1 ELSE 0
        d == c.day + shift
    IN  IF d < 1
        THEN (IF c.month = 1 THEN [month |-> 12, year |-> c.year - 1]
              ELSE [month |-> c.month - 1, year |-> c.year])
        ELSE IF d > DaysInMonth(c.year, c.month)
        THEN (IF c.month = 12 THEN [month |-> 1, year |-> c.year + 1]
              ELSE [month |-> c.month + 1, year |-> c.year])
        ELSE [month |-> c.month, year |-> c.year]

\* `${dateObj.getMonth() + 1}/${dateObj.getFullYear()}`; a string that is no
\* timestamp gives an Invalid Date, whose fields are NaN: "NaN/NaN"
formatDateString(c, tzOffset) ==
    IF c.kind = "iso"
    THEN LET my == LocalMonthYear(c, tzOffset)
         IN  [valid |-> TRUE, month |-> my.month, year |-> my.year]
    ELSE [valid |-> FALSE, month |-> 0, year |-> 0]

\* a span whose text is `(${dateString})`
createLectureDateElement(dateString) == [tag |-> "span", text |-> dateString]

\* !apiItem.created is false
HasCreated(apiItem) == apiItem.created.kind \notin {"absent", "empty"}

---------------------------------------------------------------------------
(* One pass: injectDates, then injectItemCountPerYear.                     *)

\* a slip: rows already injected are left out of the snapshot
getDomItemsUnmarked(d) ==
    LET keep == SelectSeq([i \in 1..Len(d) |-> i], LAMBDA i : ~d[i].marked)
    IN  [k \in 1..Len(keep) |-> [element |-> keep[k], title |-> trim(d[keep[k]].title)]]

\* a slip: querySelector for querySelectorAll, only the first row is read
getDomItemsFirstRow(d) ==
    [i \in 1..(IF d = <<>> THEN 0 ELSE 1) |-> [element |-> i, title |-> trim(d[i].title)]]

\* every title element inside a .ud-block-list-item, in document order; the
\* element handle of a row is its position in the page
getDomItems(d) ==
    [i \in 1..Len(d) |-> [element |-> i, title |-> trim(d[i].title)]]

\* a slip: items without a created value are dropped together with chapters
getContentItemsDated(items) ==
    SelectSeq(items, LAMBDA item : item.class # "chapter" /\ HasCreated(item))

\* a slip: nothing is filtered out
getContentItemsAll(items) == items

getContentItems(items) == SelectSeq(items, LAMBDA item : item.class # "chapter")

\* slips of the injector
InjectNoMarkerCheck(st, pair, tzOffset) ==
    LET e == pair.element
        dateEl == createLectureDateElement(formatDateString(pair.apiItem.created, tzOffset))
    IN  IF st.threw \/ ~HasCreated(pair.apiItem) THEN st
        ELSE IF st.dom[e].anchor # "row" THEN [st EXCEPT !.built = Append(@, e)]
        ELSE [st EXCEPT !.built = Append(@, e),
                        !.dom[e].annots = Append(@, dateEl),
                        !.dom[e].marked = TRUE,
                        !.wrote = @ \cup {e}]

InjectNoMark(st, pair, tzOffset) ==
    LET e == pair.element
        dateEl == createLectureDateElement(formatDateString(pair.apiItem.created, tzOffset))
    IN  IF st.threw \/ st.dom[e].marked \/ ~HasCreated(pair.apiItem) THEN st
        ELSE IF st.dom[e].anchor # "row" THEN [st EXCEPT !.built = Append(@, e)]
        ELSE [st EXCEPT !.built = Append(@, e),
                        !.dom[e].annots = Append(@, dateEl),
                        !.wrote = @ \cup {e}]

InjectIgnoresCreated(st, pair, tzOffset) ==
    LET e == pair.element
        dateEl == createLectureDateElement(formatDateString(pair.apiItem.created, tzOffset))
    IN  IF st.threw \/ st.dom[e].marked THEN st
        ELSE IF st.dom[e].anchor # "row" THEN [st EXCEPT !.built = Append(@, e)]
        ELSE [st EXCEPT !.built = Append(@, e),
                        !.dom[e].annots = Append(@, dateEl),
                        !.dom[e].marked = TRUE,
                        !.wrote = @ \cup {e}]

\* a slip: only lectures are annotated
InjectLecturesOnly(st, pair, tzOffset) ==
    LET e == pair.element
        dateEl == createLectureDateElement(formatDateString(pair.apiItem.created, tzOffset))
    IN  IF st.threw \/ st.dom[e].marked \/ ~HasCreated(pair.apiItem)
           \/ pair.apiItem.class # "lecture" THEN st
        ELSE IF st.dom[e].anchor # "row" THEN [st EXCEPT !.built = Append(@, e)]
        ELSE [st EXCEPT !.built = Append(@, e),
                        !.dom[e].annots = Append(@, dateEl),
                        !.dom[e].marked = TRUE,
                        !.wrote = @ \cup {e}]

\* without the optional chaining a missing container raises a TypeError
InjectThrowsWithoutContainer(st, pair, tzOffset) ==
    LET e == pair.element
        dateEl == createLectureDateElement(formatDateString(pair.apiItem.created, tzOffset))
    IN  IF st.threw \/ st.dom[e].marked \/ ~HasCreated(pair.apiItem) THEN st
        ELSE IF st.dom[e].anchor = "none"
        THEN [st EXCEPT !.built = Append(@, e), !.threw = TRUE]
        ELSE IF st.dom[e].anchor # "row" THEN [st EXCEPT !.built = Append(@, e)]
        ELSE [st EXCEPT !.built = Append(@, e),
                        !.dom[e].annots = Append(@, dateEl),
                        !.dom[e].marked = TRUE,
                        !.wrote = @ \cup {e}]

\* st = [dom, built, wrote, threw]: the rows, the elements the builder was
\* called for (in call order), the elements appended to, and whether an
\* exception left the loop of injectDates. A row's anchor is "none" (no
\* .ud-block-list-item-content), "container" (no div[class*="__row"] in it)
\* or "row" (the append target resolves).
injectDateIntoElement(st, pair, tzOffset) ==
    LET e == pair.element
        dateEl == createLectureDateElement(formatDateString(pair.apiItem.created, tzOffset))
    IN  IF st.threw \/ st.dom[e].marked \/ ~HasCreated(pair.apiItem) THEN st
        ELSE IF st.dom[e].anchor # "row" THEN [st EXCEPT !.built = Append(@, e)]
        ELSE [st EXCEPT !.built = Append(@, e),
                        !.dom[e].annots = Append(@, dateEl),
                        !.dom[e].marked = TRUE,
                        !.wrote = @ \cup {e}]

\* a slip: the loop yields after the first pair and the rest is left undone
InjectFromFirstOnly(pairs, k, st, tzOffset) ==
    IF pairs = <<>> THEN st ELSE injectDateIntoElement(st, pairs[1], tzOffset)

\* for (const { element, apiItem } of matched) injectDateIntoElement(...)
RECURSIVE InjectFrom(_, _, _, _)
InjectFrom(pairs, k, st, tzOffset) ==
    IF k > Len(pairs) THEN st
    ELSE InjectFrom(pairs, k + 1, injectDateIntoElement(st, pairs[k], tzOffset), tzOffset)

MatchedOf(allCurriculumItems, d) ==
    matchDomToApi(getDomItems(d), getContentItems(allCurriculumItems))

\* a slip: the pairs are injected last to first
injectDatesReversed(allCurriculumItems, d, tzOffset) ==
    LET m == MatchedOf(allCurriculumItems, d)
    IN  InjectFrom([k \in 1..Len(m) |-> m[Len(m) + 1 - k]], 1,
                   [dom |-> d, built |-> <<>>, wrote |-> {}, threw |-> FALSE], tzOffset)

\* an exception of matchDomToApi leaves injectDates before the loop
injectDates(allCurriculumItems, d, tzOffset) ==
    IF matchThrows(getDomItems(d), getContentItems(allCurriculumItems))
    THEN [dom |-> d, built |-> <<>>, wrote |-> {}, threw |-> TRUE]
    ELSE InjectFrom(MatchedOf(allCurriculumItems, d), 1,
                    [dom |-> d, built |-> <<>>, wrote |-> {}, threw |-> FALSE], tzOffset)

\* countItemsByYear: year -> number of items created in that (local) year
countItemsByYear(items, tzOffset) ==
    LET dated == {i \in 1..Len(items) : HasCreated(items[i])}
        yearOf(i) == formatDateString(items[i].created, tzOffset).year
    IN  [y \in {yearOf(i) : i \in dated} |-> Cardinality({i \in dated : yearOf(i) = y})]

\* TRUE iff injectItemCountPerYear appends a widget (and a style element)
\* a slip: the widget is built without looking for an existing one
WidgetDueNoExistenceCheck(st) == st.present

WidgetDue(st) == st.present /\ st.widgets = <<>>

injectItemCountPerYear(allCurriculumItems, st, tzOffset) ==
    IF WidgetDue(st)
    THEN [st EXCEPT !.widgets = Append(@, countItemsByYear(allCurriculumItems, tzOffset))]
    ELSE st

---------------------------------------------------------------------------
(* Spec: the content script on a page.                                     *)

\* local-time offsets of the environments drawn
TzOffsets == {-5, 0}

DomTitles == {Title(1, 1), Title(2, 1)}

FreshRow(t, a) == [title |-> t, anchor |-> a, marked |-> FALSE, annots |-> <<>>]

FreshRows == {FreshRow(t, a) : t \in DomTitles, a \in {"none", "container", "row"}}

\* what the API may list: same-title items with and without a created
\* value, a chapter carrying a row's title, a quiz, a practice item whose
\* created value is no timestamp, a lecture that came without a title
ItemPool ==
    {[class |-> "lecture", title |-> Title(1, 0), created |-> Iso(2023, 1, 1, 0)],
     [class |-> "lecture", title |-> Title(1, 0), created |-> NoCreated],
     [class |-> "quiz",    title |-> Title(2, 0), created |-> Iso(2023, 2, 15, 12)],
     [class |-> "lecture", title |-> Title(2, 0), created |-> EmptyCreated],
     [class |-> "practice", title |-> Title(2, 0), created |-> Garbage],
     [class |-> "lecture", title |-> NoTitle, created |-> Iso(2023, 2, 15, 12)],
     [class |-> "chapter", title |-> Title(1, 0), created |-> Iso(2023, 2, 15, 12)]}

\* the list fetchCurriculumItems resolves with; ids are unique
CurriculumLists ==
    {[i \in 1..Len(l) |->
        [id |-> i, class |-> l[i].class, title |-> l[i].title, created |-> l[i].created]] :
        l \in SeqsUpTo(ItemPool, MaxItems)}

Init ==
    /\ pc = "start"
    /\ tz \in TzOffsets
    /\ hostQuiet = FALSE
    /\ lectures = <<>>
    /\ dom \in SeqsUpTo(FreshRows, MaxRows)
    /\ stats \in {[present |-> b, widgets |-> <<>>] : b \in BOOLEAN}
    /\ headStyles = 0
    /\ timeout = FALSE
    /\ timers = 0
    /\ due = FALSE
    /\ invalidated = FALSE
    /\ startup = "none"
    /\ records = FALSE
    /\ lastPass = NoPass
    /\ mpc = "unused"
    /\ mDom = <<>>
    /\ mApi = <<>>
    /\ domIndex = 0
    /\ apiIndex = 0
    /\ matched = <<>>
    /\ lastStep = IdleStep
    /\ CourseIdle
    /\ FetchIdle

\* a slip: the guard on the course id lacks the return; the fetch is issued
\* with no id and its result is held
MainNoCourseIdFetches ==
    /\ pc = "start"
    /\ pc' = "noCourse"
    /\ lectures' \in CurriculumLists
    /\ UNCHANGED <<tz, hostQuiet, dom, stats, headStyles, timeout, timers, due, invalidated,
                   startup, records, lastPass, mvars, cvars, fvars>>

\* const courseId = getCourseId(); if (!courseId) return;
MainNoCourseId ==
    /\ pc = "start"
    /\ pc' = "noCourse"
    /\ UNCHANGED <<tz, hostQuiet, lectures, dom, stats, headStyles, timeout, timers, due, invalidated,
                   startup, records, lastPass, mvars, cvars, fvars>>

\* lectures = await fetchCurriculumItems(courseId)
MainFetch ==
    /\ pc = "start"
    /\ pc' = "fetching"
    /\ UNCHANGED <<tz, hostQuiet, lectures, dom, stats, headStyles, timeout, timers, due, invalidated,
                   startup, records, lastPass, mvars, cvars, fvars>>

\* a slip: the catch block lacks the return, main() goes on with the empty
\* list up to the initial runInjection()
FetchRejectedGoesOn ==
    /\ pc = "fetching"
    /\ pc' = "failed"
    /\ timeout' = TRUE /\ timers' = timers + 1
    /\ UNCHANGED <<tz, hostQuiet, lectures, dom, stats, headStyles, due, invalidated,
                   startup, records, lastPass, mvars, cvars, fvars>>

\* catch (e) { console.error(...); return; }
FetchRejected ==
    /\ pc = "fetching"
    /\ pc' = "failed"
    /\ UNCHANGED <<tz, hostQuiet, lectures, dom, stats, headStyles, timeout, timers, due, invalidated,
                   startup, records, lastPass, mvars, cvars, fvars>>

\* clearTimeout(handle): the timer the handle names, if it is still pending,
\* is cancelled; n timers were pending
clearTimeout(pending, n) == IF pending THEN n - 1 ELSE n

\* a slip: main() leaves out the initial runInjection()
FetchResolvedNoInitialRun ==
    /\ pc = "fetching"
    /\ \E l \in CurriculumLists :
        /\ lectures' = l
        /\ IF Len(l) = 0
           THEN pc' = "off" /\ startup' = startup
           ELSE pc' = "armed" /\ startup' = "pending"
    /\ timeout' = timeout /\ timers' = timers
    /\ due' = FALSE
    /\ UNCHANGED <<tz, hostQuiet, dom, stats, headStyles, invalidated, records, lastPass, mvars, cvars, fvars>>

\* the fetch resolves: an empty list returns; otherwise the observer is
\* created and runInjection() is called once (the initial run)
FetchResolved ==
    /\ pc = "fetching"
    /\ \E l \in CurriculumLists :
        /\ lectures' = l
        /\ IF Len(l) = 0
           THEN pc' = "off" /\ timeout' = timeout /\ timers' = timers /\ startup' = startup
           ELSE pc' = "armed" /\ timeout' = TRUE /\ startup' = "pending"
                /\ timers' = clearTimeout(timeout, timers) + 1
    /\ due' = FALSE
    /\ UNCHANGED <<tz, hostQuiet, dom, stats, headStyles, invalidated, records, lastPass, mvars, cvars, fvars>>

\* main() has returned without creating the observer
Returned == {"noCourse", "failed", "off"}

\* the host page changes the subtree of document.body in a task of its own;
\* a connected observer gets a mutation record
HostChange ==
    /\ pc \in {"armed"} \cup Returned
    /\ ~hostQuiet
    /\ ~records
    /\ records' = (pc = "armed")
    /\ lastPass' = NoPass
    /\ UNCHANGED <<pc, tz, hostQuiet, lectures, headStyles, timeout, timers, due, invalidated, startup, mvars, cvars, fvars>>

InsertAt(seq, p, x) == SubSeq(seq, 1, p - 1) \o <<x>> \o SubSeq(seq, p, Len(seq))

RemoveAt(seq, i) == SubSeq(seq, 1, i - 1) \o SubSeq(seq, i + 1, Len(seq))

HostInsertRow ==
    /\ HostChange
    /\ Len(dom) < MaxRows
    /\ \E p \in 1..(Len(dom) + 1), r \in FreshRows : dom' = InsertAt(dom, p, r)
    /\ stats' = stats

HostRemoveRow ==
    /\ HostChange
    /\ \E i \in 1..Len(dom) : dom' = RemoveAt(dom, i)
    /\ stats' = stats

\* the host renders more of a row: its content container, then its row div
HostRenderAnchor ==
    /\ HostChange
    /\ \E i \in 1..Len(dom) :
        /\ dom[i].anchor # "row"
        /\ dom' = [dom EXCEPT ![i].anchor = IF @ = "none" THEN "container" ELSE "row"]
    /\ stats' = stats

HostRenderStats ==
    /\ HostChange
    /\ ~stats.present
    /\ stats' = [stats EXCEPT !.present = TRUE]
    /\ dom' = dom

\* a slip: the callback schedules a timer without clearing the previous one
RunInjectionNoClear ==
    /\ pc = "armed"
    /\ records
    /\ timers < 3
    /\ records' = FALSE
    /\ timeout' = TRUE
    /\ timers' = timers + 1
    /\ due' = FALSE
    /\ startup' = IF startup = "pending" THEN "postponed" ELSE startup
    /\ UNCHANGED <<pc, tz, hostQuiet, lectures, dom, stats, headStyles, invalidated, lastPass, mvars, cvars, fvars>>

\* a slip: a leading-edge debounce, the callback leaves a pending timer alone
RunInjectionKeepsTimer ==
    /\ pc = "armed"
    /\ records
    /\ records' = FALSE
    /\ timeout' = TRUE /\ timers' = (IF timeout THEN timers ELSE timers + 1)
    /\ due' = (timeout /\ due)
    /\ startup' = IF startup = "pending" THEN "postponed" ELSE startup
    /\ UNCHANGED <<pc, tz, hostQuiet, lectures, dom, stats, headStyles, invalidated, lastPass, mvars, cvars, fvars>>

\* the MutationObserver callback runInjection: clearTimeout(timeout);
\* timeout = setTimeout(..., 100). Records are delivered in a microtask,
\* before any other task runs.
RunInjection ==
    /\ pc = "armed"
    /\ records
    /\ records' = FALSE
    /\ timeout' = TRUE /\ timers' = clearTimeout(timeout, timers) + 1
    /\ due' = FALSE
    /\ startup' = IF startup = "pending" THEN "postponed" ELSE startup
    /\ UNCHANGED <<pc, tz, hostQuiet, lectures, dom, stats, headStyles, invalidated, lastPass, mvars, cvars, fvars>>

\* a slip: setInterval in place of setTimeout, the timer stays armed
TimerFiresRepeats ==
    /\ pc = "armed"
    /\ timeout
    /\ due
    /\ ~records
    /\ \E st \in {injectDates(lectures, dom, tz)} :
       LET widgetDue == ~st.threw /\ WidgetDue(stats)
       IN  /\ dom' = st.dom
           /\ stats' = IF st.threw THEN stats
                       ELSE injectItemCountPerYear(lectures, stats, tz)
           /\ headStyles' = IF widgetDue THEN headStyles + 1 ELSE headStyles
           /\ records' = (st.wrote # {} \/ widgetDue)
           /\ lastPass' = [ran |-> TRUE,
                           quiet |-> lastPass.ran,
                           trigger |-> startup,
                           before |-> dom,
                           statsBefore |-> stats,
                           matched |-> MatchedOf(lectures, dom),
                           built |-> st.built,
                           wrote |-> st.wrote,
                           widget |-> widgetDue,
                           threw |-> st.threw]
    /\ timeout' = TRUE /\ timers' = timers
    /\ due' = FALSE
    /\ startup' = "done"
    /\ UNCHANGED <<pc, tz, hostQuiet, lectures, invalidated, mvars, cvars, fvars>>

\* a slip: the pass filters the held list in place
TimerFiresFiltersInPlace ==
    /\ pc = "armed"
    /\ timeout
    /\ due
    /\ ~records
    /\ \E st \in {injectDates(lectures, dom, tz)} :
       LET widgetDue == ~st.threw /\ WidgetDue(stats)
       IN  /\ dom' = st.dom
           /\ stats' = IF st.threw THEN stats
                       ELSE injectItemCountPerYear(lectures, stats, tz)
           /\ headStyles' = IF widgetDue THEN headStyles + 1 ELSE headStyles
           /\ records' = (st.wrote # {} \/ widgetDue)
           /\ lastPass' = [ran |-> TRUE,
                           quiet |-> lastPass.ran,
                           trigger |-> startup,
                           before |-> dom,
                           statsBefore |-> stats,
                           matched |-> MatchedOf(lectures, dom),
                           built |-> st.built,
                           wrote |-> st.wrote,
                           widget |-> widgetDue,
                           threw |-> st.threw]
    /\ timeout' = FALSE /\ timers' = timers - 1
    /\ due' = FALSE
    /\ startup' = "done"
    /\ lectures' = getContentItems(lectures)
    /\ UNCHANGED <<pc, tz, hostQuiet, invalidated, mvars, cvars, fvars>>

\* the debounce timer expires: injectDates(lectures);
\* injectItemCountPerYear(lectures), run to completion. An exception in
\* injectDates ends the callback before the widget. Appending under
\* document.body queues a mutation record for the observer.
TimerFires ==
    /\ pc = "armed"
    /\ timeout
    /\ due
    /\ ~records
    /\ \E st \in {injectDates(lectures, dom, tz)} :
       LET widgetDue == ~st.threw /\ WidgetDue(stats)
       IN  /\ dom' = st.dom
           /\ stats' = IF st.threw THEN stats
                       ELSE injectItemCountPerYear(lectures, stats, tz)
           /\ headStyles' = IF widgetDue THEN headStyles + 1 ELSE headStyles
           /\ records' = (st.wrote # {} \/ widgetDue)
           /\ lastPass' = [ran |-> TRUE,
                           quiet |-> lastPass.ran,
                           trigger |-> startup,
                           before |-> dom,
                           statsBefore |-> stats,
                           matched |-> MatchedOf(lectures, dom),
                           built |-> st.built,
                           wrote |-> st.wrote,
                           widget |-> widgetDue,
                           threw |-> st.threw]
    /\ timeout' = FALSE /\ timers' = timers - 1
    /\ due' = FALSE
    /\ startup' = "done"
    /\ UNCHANGED <<pc, tz, hostQuiet, lectures, invalidated, mvars, cvars, fvars>>

\* 100 ms pass with no task of the page or of the script in between
QuietPeriodElapses ==
    /\ timeout
    /\ ~due
    /\ ~records
    /\ due' = TRUE
    /\ UNCHANGED <<pc, tz, hostQuiet, lectures, dom, stats, headStyles, timeout, timers, invalidated,
                   startup, records, lastPass, mvars, cvars, fvars>>

\* the page view is invalidated (navigation inside the single-page app, the
\* extension reloaded). main() takes no context argument and registers no
\* handler: nothing of the script's state changes.
Invalidate ==
    /\ pc \in {"fetching", "armed"}
    /\ ~invalidated
    /\ ~records
    /\ invalidated' = TRUE
    /\ UNCHANGED <<pc, tz, hostQuiet, lectures, dom, stats, headStyles, timeout, timers, due,
                   startup, records, lastPass, mvars, cvars, fvars>>

Next ==
    \/ MainNoCourseId
    \/ MainFetch
    \/ FetchRejected
    \/ FetchResolved
    \/ HostInsertRow
    \/ HostRemoveRow
    \/ HostRenderAnchor
    \/ HostRenderStats
    \/ RunInjection
    \/ QuietPeriodElapses
    \/ TimerFires
    \/ Invalidate

Spec == Init /\ [][Next]_vars

----------------------------------------------------------------------------
(* The course-date content script (observer-based version).                *)

FetchErrors == {"API Error", "Network Error"}

CourseCreated == {Iso(2020, 1, 1, 0), Iso(2023, 12, 15, 12), Garbage, NoCreated}

MatcherIdle ==
    /\ mpc = "unused"
    /\ mDom = <<>>
    /\ mApi = <<>>
    /\ domIndex = 0
    /\ apiIndex = 0
    /\ matched = <<>>
    /\ lastStep = IdleStep

InitCourse ==
    /\ cpc = "start"
    /\ fetchResult = NotSettled
    /\ outcome = [state |-> "pending", error |-> "none"]
    /\ cDateString = NoDate
    /\ courseAnchor \in {"none", "present", "root"}
    /\ dateElements = 0
    /\ observing = FALSE
    /\ cRecords = FALSE
    /\ unloaded = FALSE
    /\ pc = "unused"
    /\ tz \in TzOffsets
    /\ hostQuiet = FALSE
    /\ lectures = <<>>
    /\ dom = <<>>
    /\ stats = [present |-> FALSE, widgets |-> <<>>]
    /\ headStyles = 0
    /\ timeout = FALSE
    /\ timers = 0
    /\ due = FALSE
    /\ invalidated = FALSE
    /\ startup = "none"
    /\ records = FALSE
    /\ lastPass = NoPass
    /\ MatcherIdle
    /\ FetchIdle

\* a slip: inject() without the getElementById check
InjectNoIdCheck(elements, anchor) ==
    IF anchor # "present" THEN elements ELSE elements + 1

\* inject(): the number of date elements after the call
inject(elements, anchor) ==
    IF elements > 0 THEN elements
    ELSE IF anchor # "present" THEN elements
    ELSE elements + 1

\* if (!courseId) return
CourseNoCourseId ==
    /\ cpc = "start"
    /\ cpc' = "noCourse"
    /\ outcome' = [state |-> "fulfilled", error |-> "none"]
    /\ UNCHANGED <<fetchResult, cDateString, courseAnchor, dateElements,
                   observing, cRecords, unloaded>>
    /\ UNCHANGED <<mvars, svars, fvars>>

\* await fetchCourseCreationDate(courseId): main() is suspended
CourseFetch ==
    /\ cpc = "start"
    /\ cpc' = "fetching"
    /\ UNCHANGED <<fetchResult, outcome, cDateString, courseAnchor, dateElements,
                   observing, cRecords, unloaded>>
    /\ UNCHANGED <<mvars, svars, fvars>>

\* the promise of fetchCourseCreationDate settles: fetch or response.json()
\* rejects, or data.created is returned
CourseFetchSettles ==
    /\ cpc = "fetching"
    /\ \/ \E e \in FetchErrors :
             fetchResult' = [kind |-> "rejected", created |-> NoCreated, error |-> e]
       \/ \E c \in CourseCreated :
             fetchResult' = [kind |-> "resolved", created |-> c, error |-> "none"]
    /\ cpc' = "resuming"
    /\ UNCHANGED <<outcome, cDateString, courseAnchor, dateElements,
                   observing, cRecords, unloaded>>
    /\ UNCHANGED <<mvars, svars, fvars>>

\* a slip: the await is wrapped in a try/catch that swallows the error
CourseResumesCatching ==
    /\ cpc = "resuming"
    /\ fetchResult.kind = "rejected"
    /\ cpc' = "rejected"
    /\ outcome' = [state |-> "fulfilled", error |-> "none"]
    /\ UNCHANGED <<fetchResult, cDateString, courseAnchor, dateElements,
                   observing, cRecords, unloaded>>
    /\ UNCHANGED <<mvars, svars, fvars>>

\* the await throws the rejection reason; main() has no try/catch around it
CourseResumesRejected ==
    /\ cpc = "resuming"
    /\ fetchResult.kind = "rejected"
    /\ cpc' = "rejected"
    /\ outcome' = [state |-> "rejected", error |-> fetchResult.error]
    /\ UNCHANGED <<fetchResult, cDateString, courseAnchor, dateElements,
                   observing, cRecords, unloaded>>
    /\ UNCHANGED <<mvars, svars, fvars>>

\* formatDateString; new MutationObserver; the beforeunload listener;
\* observer.observe(document.body, ...); inject(); main() returns
CourseResumesResolved ==
    /\ cpc = "resuming"
    /\ fetchResult.kind = "resolved"
    /\ cpc' = "armed"
    /\ cDateString' = formatDateString(fetchResult.created, tz)
    /\ dateElements' = inject(dateElements, courseAnchor)
    /\ observing' = TRUE
    /\ cRecords' = (dateElements' # dateElements)
    /\ outcome' = [state |-> "fulfilled", error |-> "none"]
    /\ UNCHANGED <<fetchResult, courseAnchor, unloaded>>
    /\ UNCHANGED <<mvars, svars, fvars>>

\* new MutationObserver(() => inject())
CourseObserverCallback ==
    /\ cpc = "armed"
    /\ observing
    /\ cRecords
    /\ dateElements' = inject(dateElements, courseAnchor)
    /\ cRecords' = (dateElements' # dateElements)
    /\ UNCHANGED <<cpc, fetchResult, outcome, cDateString, courseAnchor,
                   observing, unloaded>>
    /\ UNCHANGED <<mvars, svars, fvars>>

\* the host page changes between two tasks of the script: records queued
\* for the observer are delivered before the next task runs; the page may
\* go on changing after beforeunload, which the user can cancel
CourseHostChange ==
    /\ cpc # "unused"
    /\ ~cRecords
    /\ cRecords' = observing

\* the host renders the container matching ANCHOR_SELECTOR under document.body
CourseHostRenderAnchor ==
    /\ CourseHostChange
    /\ courseAnchor = "none"
    /\ courseAnchor' = "present"
    /\ UNCHANGED <<cpc, fetchResult, outcome, cDateString, dateElements,
                   observing, unloaded>>
    /\ UNCHANGED <<mvars, svars, fvars>>

\* the host re-renders without the container; what was inserted in it goes too
CourseHostRemoveAnchor ==
    /\ CourseHostChange
    /\ courseAnchor = "present"
    /\ courseAnchor' = "none"
    /\ dateElements' = 0
    /\ UNCHANGED <<cpc, fetchResult, outcome, cDateString, observing, unloaded>>
    /\ UNCHANGED <<mvars, svars, fvars>>

\* the host re-renders the content of the container, dropping the date element
CourseHostRemoveDate ==
    /\ CourseHostChange
    /\ dateElements > 0
    /\ dateElements' = 0
    /\ UNCHANGED <<cpc, fetchResult, outcome, cDateString, courseAnchor,
                   observing, unloaded>>
    /\ UNCHANGED <<mvars, svars, fvars>>

\* beforeunload is dispatched on window, once main() has registered its
\* listener: observer.disconnect(), which drops the queued records
CourseBeforeUnload ==
    /\ cpc = "armed"
    /\ ~unloaded
    /\ unloaded' = TRUE
    /\ observing' = FALSE
    /\ cRecords' = FALSE
    /\ UNCHANGED <<cpc, fetchResult, outcome, cDateString, courseAnchor,
                   dateElements>>
    /\ UNCHANGED <<mvars, svars, fvars>>

NextCourse ==
    \/ CourseNoCourseId
    \/ CourseFetch
    \/ CourseFetchSettles
    \/ CourseResumesRejected
    \/ CourseResumesResolved
    \/ CourseObserverCallback
    \/ CourseHostRenderAnchor
    \/ CourseHostRemoveAnchor
    \/ CourseHostRemoveDate
    \/ CourseBeforeUnload

SpecCourse == InitCourse /\ [][NextCourse]_vars

----------------------------------------------------------------------------
(* One call of fetchCurriculumItems against a paginated server.            *)

MaxPages == 3

\* requests after which the model stops following a chain that never ends
MaxRequests == MaxPages + 1

\* the sort_order values of the results of one page
ResultPool == {<<>>, <<0, 2>>, <<1, 1>>}

\* page k of the server: its items, and next: 0 (null), the following page,
\* or page 1 again (a chain of next URLs that never ends)
MkPage(k, orders, next) ==
    [results |-> [i \in 1..Len(orders) |->
                     [id |-> 10 * k + i, sort_order |-> orders[i]]],
     next |-> next]

NextChoices(k, n) == {0, 1} \cup (IF k < n THEN {k + 1} ELSE {})

PageLists ==
    UNION {
      { [k \in 1..n |-> MkPage(k, orders[k], nexts[k])] :
          orders \in [1..n -> ResultPool],
          nexts \in { f \in [1..n -> 0..n] : \A k \in 1..n : f[k] \in NextChoices(k, n) } }
      : n \in 1..MaxPages }

InitFetch ==
    /\ fpc = "loop"
    /\ fPages \in PageLists
    /\ url = 1
    /\ allResults = <<>>
    /\ requests = <<>>
    /\ fReturn = NotReturned
    /\ SystemIdle
    /\ CourseIdle
    /\ MatcherIdle

RECURSIVE InsertDescending(_, _)
InsertDescending(x, sorted) ==
    IF sorted = <<>> THEN <<x>>
    ELSE IF Head(sorted).sort_order <= x.sort_order THEN <<x>> \o sorted
    ELSE <<Head(sorted)>> \o InsertDescending(x, Tail(sorted))

\* allResults.sort((a, b) => b.sort_order - a.sort_order): a stable sort,
\* items of equal sort_order keep their order
RECURSIVE sortBySortOrder(_)
sortBySortOrder(items) ==
    IF items = <<>> THEN <<>>
    ELSE InsertDescending(Head(items), sortBySortOrder(Tail(items)))

\* while (url) { const response = await fetch(url, ...)
FetchRequest ==
    /\ fpc = "loop"
    /\ url # 0
    /\ Len(requests) < MaxRequests
    /\ requests' = Append(requests, url)
    /\ fpc' = "awaiting"
    /\ UNCHANGED <<fPages, url, allResults, fReturn>>
    /\ UNCHANGED <<mvars, svars, cvars>>

\* a slip: the response's next URL is not followed
FetchResponseIgnoresNext ==
    /\ fpc = "awaiting"
    /\ allResults' = allResults \o fPages[url].results
    /\ url' = 0
    /\ fpc' = "loop"
    /\ UNCHANGED <<fPages, requests, fReturn>>
    /\ UNCHANGED <<mvars, svars, cvars>>

\* data = await response.json(); allResults.push(...data.results);
\* url = data.next
FetchResponse ==
    /\ fpc = "awaiting"
    /\ allResults' = allResults \o fPages[url].results
    /\ url' = fPages[url].next
    /\ fpc' = "loop"
    /\ UNCHANGED <<fPages, requests, fReturn>>
    /\ UNCHANGED <<mvars, svars, cvars>>

\* fetch(url) or response.json() rejects: the await throws, nothing catches
FetchRequestRejected ==
    /\ fpc = "awaiting"
    /\ \E e \in FetchErrors :
           fReturn' = [state |-> "rejected", items |-> <<>>, error |-> e]
    /\ fpc' = "rejected"
    /\ UNCHANGED <<fPages, url, allResults, requests>>
    /\ UNCHANGED <<mvars, svars, cvars>>

\* url is null: return allResults.sort(...)
FetchReturn ==
    /\ fpc = "loop"
    /\ url = 0
    /\ fReturn' = [state |-> "fulfilled", items |-> sortBySortOrder(allResults),
                   error |-> "none"]
    /\ fpc' = "done"
    /\ UNCHANGED <<fPages, url, allResults, requests>>
    /\ UNCHANGED <<mvars, svars, cvars>>

NextFetch ==
    \/ FetchRequest
    \/ FetchResponse
    \/ FetchRequestRejected
    \/ FetchReturn

\* fairness: the event loop runs the function whenever it can continue, and
\* every request that was sent settles, by a response or by a rejection
SpecFetch == InitFetch /\ [][NextFetch]_vars /\ WF_vars(NextFetch)

---------------------------------------------------------------------------
(* Properties of matchDomToApi, checked under SpecMatch.                   *)

\* two titles name the same curriculum entry
SameEntry(t, u) == normalizeTitle(t) = normalizeTitle(u)

\* a loop iteration is being taken for the row at domIndex
IterationStep == mpc = "loop" /\ domIndex' = domIndex + 1

CurrentRow == mDom[domIndex + 1]

\* offsets 1..10 at which the current row's title is found after the cursor
RecoveryOffsets ==
    {k \in 1..10 : /\ apiIndex + k < Len(mApi)
                   /\ SameEntry(CurrentRow.title, mApi[apiIndex + k + 1].title)}

CursorMismatch == ~SameEntry(CurrentRow.title, mApi[apiIndex + 1].title)

\* C1: exact-order identity: on equal-length inputs whose normalized titles
\* agree position by position, matchDomToApi returns length(domRows) pairs
\* and the i-th pair is (domRows[i].element, apiItems[i]).
C1_ExactOrderIdentity ==
    (/\ mpc = "done"
     /\ Len(mDom) = Len(mApi)
     /\ \A i \in 1..Len(mDom) : SameEntry(mDom[i].title, mApi[i].title))
    => /\ Len(matched) = Len(mDom)
       /\ \A i \in 1..Len(mDom) :
            matched[i] = [element |-> mDom[i].element, apiItem |-> mApi[i]]

\* the identity case on MaxDom rows, some of them spelled differently from
\* their API item
C1_Witness ==
    /\ mpc = "done"
    /\ Len(mDom) = MaxDom
    /\ Len(mApi) = MaxDom
    /\ \A i \in 1..Len(mDom) : SameEntry(mDom[i].title, mApi[i].title)
    /\ \E i \in 1..Len(mDom) : mDom[i].title # mApi[i].title
    /\ Len(matched) = MaxDom

\* C2: lookahead recovery: when the current row differs from
\* apiItems[apiIndex] and k is the smallest offset in 1..10 at which it is
\* found, the iteration emits (row, apiItems[apiIndex + k]) and leaves the
\* cursor at apiIndex + k + 1; no pair ever refers to an item before the
\* cursor, so the skipped items stay unpaired.
C2_LookaheadRecovery ==
    [][IterationStep =>
        /\ (CursorMismatch /\ RecoveryOffsets # {}) =>
              LET k == SetMin(RecoveryOffsets)
              IN  /\ matched' = Append(matched,
                        [element |-> CurrentRow.element,
                         apiItem |-> mApi[apiIndex + k + 1]])
                  /\ apiIndex' = apiIndex + k + 1
        /\ \A j \in (Len(matched) + 1)..Len(matched') :
              matched'[j].apiItem.id > apiIndex
        /\ \A j \in 1..Len(matched) : matched'[j] = matched[j]
      ]_vars

\* DOM [A, C], API [A, B, C]: the hidden B is skipped, C recovered
C2_Witness ==
    /\ mpc = "done"
    /\ Len(mApi) = 3
    /\ Len(mDom) = 2
    /\ \A i, j \in 1..3 : i # j => ~SameEntry(mApi[i].title, mApi[j].title)
    /\ lastStep = [kind |-> "lookahead", from |-> 1, found |-> 2]
    /\ matched = <<[element |-> mDom[1].element, apiItem |-> mApi[1]],
                   [element |-> mDom[2].element, apiItem |-> mApi[3]]>>

\* C3: lookahead failure: when the current row equals none of
\* apiItems[apiIndex .. apiIndex + 10], the iteration emits no pair and
\* leaves the cursor where it is, so the next row meets the same
\* apiItems[apiIndex].
C3_LookaheadFailure ==
    [][(IterationStep /\ CursorMismatch /\ RecoveryOffsets = {}) =>
        /\ matched' = matched
        /\ apiIndex' = apiIndex
        /\ mApi' = mApi
      ]_vars

\* DOM [A, X, B], API [A, B]: X is left out, B still matches
C3_Witness ==
    /\ mpc = "done"
    /\ Len(mApi) = 2
    /\ Len(mDom) = 3
    /\ ~SameEntry(mApi[1].title, mApi[2].title)
    /\ \A j \in 1..2 : ~SameEntry(mDom[2].title, mApi[j].title)
    /\ matched = <<[element |-> mDom[1].element, apiItem |-> mApi[1]],
                   [element |-> mDom[3].element, apiItem |-> mApi[2]]>>

\* API positions (0-based) whose title is the current row's
CounterpartsOfCurrentRow ==
    {j \in 0..(Len(mApi) - 1) : SameEntry(CurrentRow.title, mApi[j + 1].title)}

\* C4: window boundary: a row whose only matching API item lies exactly 10
\* positions after the cursor is matched with it; a row whose only matching
\* API item lies 11 positions after the cursor is not matched.
C4_WindowBoundary ==
    [][IterationStep =>
        /\ CounterpartsOfCurrentRow = {apiIndex + 10} =>
              /\ matched' = Append(matched,
                    [element |-> CurrentRow.element,
                     apiItem |-> mApi[apiIndex + 10 + 1]])
              /\ apiIndex' = apiIndex + 11
        /\ CounterpartsOfCurrentRow = {apiIndex + 11} =>
              /\ matched' = matched
              /\ apiIndex' = apiIndex
      ]_vars

\* 12 API items; the first row's item is 11 after the cursor (not matched),
\* the second row's item is 10 after the cursor (matched)
C4_Witness ==
    /\ mpc = "done"
    /\ Len(mApi) = 12
    /\ Len(mDom) = 2
    /\ SameEntry(mDom[1].title, mApi[12].title)
    /\ SameEntry(mDom[2].title, mApi[11].title)
    /\ lastStep = [kind |-> "lookahead", from |-> 0, found |-> 10]
    /\ matched = <<[element |-> mDom[2].element, apiItem |-> mApi[11]]>>

\* ---- C5 ----
ApiTitlesDistinct ==
    \A i, j \in 1..Len(mApi) : i # j => ~SameEntry(mApi[i].title, mApi[j].title)

\* API positions (1-based) with the title of DOM row r
CounterpartsOf(r) ==
    {j \in 1..Len(mApi) : SameEntry(mDom[r].title, mApi[j].title)}

RowsWithCounterpart == {r \in 1..Len(mDom) : CounterpartsOf(r) # {}}

\* API items that no DOM row shows
DeletedItems ==
    {j \in 1..Len(mApi) : \A r \in 1..Len(mDom) : j \notin CounterpartsOf(r)}

\* the DOM shows every API item at most once
EachItemOnce ==
    \A r, q \in RowsWithCounterpart : r # q => CounterpartsOf(r) # CounterpartsOf(q)

\* the rows missing from the DOM come in runs of at most 10
DeletionsBounded ==
    \A j \in 1..(Len(mApi) - 10) : \E i \in j..(j + 10) : i \notin DeletedItems

\* the rows that have a counterpart appear in the API's order
RowsInApiOrder ==
    \A r, q \in RowsWithCounterpart :
        r < q => \A a \in CounterpartsOf(r), b \in CounterpartsOf(q) : a < b

EveryRowPairedWithItsItem ==
    \A r \in RowsWithCounterpart :
        \E j \in 1..Len(matched) :
            /\ matched[j].element = mDom[r].element
            /\ matched[j].apiItem.id \in CounterpartsOf(r)

\* C5 as stated: insertions, deletions of up to 10 consecutive rows and
\* swaps all keep every row that has an API item paired with it.
C5_AsStated ==
    (mpc = "done" /\ ApiTitlesDistinct /\ EachItemOnce /\ DeletionsBounded)
    => EveryRowPairedWithItsItem

\* C5 amended: insertions and deletions of up to 10 consecutive rows keep
\* every row that has an API item paired with it, provided the rows appear
\* in the API's order (no swap).
C5_InsertDeleteTolerance ==
    (mpc = "done" /\ ApiTitlesDistinct /\ EachItemOnce /\ DeletionsBounded
        /\ RowsInApiOrder)
    => EveryRowPairedWithItsItem

\* an inserted row and a deleted run together: DOM [X, T3] against
\* API [T1, T2, T3, ...]
C5_Witness ==
    /\ mpc = "done"
    /\ ApiTitlesDistinct /\ EachItemOnce /\ DeletionsBounded /\ RowsInApiOrder
    /\ Len(mApi) >= 3
    /\ Len(mDom) = 2
    /\ CounterpartsOf(1) = {}
    /\ CounterpartsOf(2) = {3}
    /\ matched = <<[element |-> mDom[2].element, apiItem |-> mApi[3]]>>

\* the words of a title, lower-cased: its maximal runs of non-whitespace
RECURSIVE WordsFrom(_, _, _)
WordsFrom(t, i, word) ==
    LET done == IF word = <<>> THEN <<>> ELSE <<word>>
    IN  IF i > Len(t) THEN done
        ELSE IF t[i] \in Whitespace THEN done \o WordsFrom(t, i + 1, <<>>)
        ELSE WordsFrom(t, i + 1, Append(word, ToLowerChar(t[i])))

LowerWords(t) == WordsFrom(t, 1, <<>>)

\* the words joined by single spaces
RECURSIVE JoinWords(_)
JoinWords(ws) ==
    IF ws = <<>> THEN <<>>
    ELSE IF Len(ws) = 1 THEN ws[1]
    ELSE ws[1] \o <<" ">> \o JoinWords(Tail(ws))

TitlesInPlay ==
    {mDom[i].title : i \in 1..Len(mDom)} \cup {mApi[i].title : i \in 1..Len(mApi)}

\* C27: normalizeTitle lower-cases, collapses every run of whitespace to one
\* space and trims both ends: its result is the title's lower-cased words
\* joined by single spaces; it is defined on every title and idempotent; and
\* a row is paired with the item at the cursor if and only if the two
\* normalized titles are equal, i.e. the titles have the same lower-cased
\* words.
C27_NormalizeTitle ==
    /\ \A t \in TitlesInPlay :
          /\ normalizeTitle(t) = JoinWords(LowerWords(t))
          /\ normalizeTitle(normalizeTitle(t)) = normalizeTitle(t)
    /\ (mpc = "done" /\ Len(mDom) = 1 /\ Len(mApi) = 1) =>
          /\ (matched # <<>>) <=>
                (normalizeTitle(mDom[1].title) = normalizeTitle(mApi[1].title))
          /\ (matched # <<>>) <=>
                (LowerWords(mDom[1].title) = LowerWords(mApi[1].title))

\* "A\t b " and " A\tB ": equal up to case and runs of whitespace
C27_Witness ==
    /\ mpc = "done"
    /\ Len(mDom) = 1
    /\ Len(mApi) = 1
    /\ mDom[1].title = <<"A", "\t", " ", "b">>
    /\ mApi[1].title = <<" ", "A", "\t", "B", " ">>
    /\ Len(matched) = 1

\* more than 10 consecutive API items starting at the cursor, i.e. the item
\* at the cursor and the 10 after it, have no counterpart among the rows
\* still to be visited
CursorStuck ==
    /\ mpc = "loop"
    /\ ApiTitlesDistinct
    /\ apiIndex + 10 < Len(mApi)
    /\ \A k \in 0..10 : \A r \in (domIndex + 1)..Len(mDom) :
          ~SameEntry(mDom[r].title, mApi[apiIndex + k + 1].title)

\* C29: no resynchronisation beyond the window: with pairwise-distinct
\* titles, once the item at the cursor and the 10 items after it have no
\* counterpart among the remaining rows, every further step of the pass
\* leaves the cursor where it is and pairs no row, so rows whose item lies
\* more than 10 positions after the cursor stay unpaired.
C29_NoResynchronisation ==
    [][CursorStuck =>
        /\ apiIndex' = apiIndex
        /\ matched' = matched
        /\ mpc' = "loop" => CursorStuck'
      ]_vars

\* 12 API items, the rows show only the last one, 11 after the cursor
C29_Witness ==
    /\ mpc = "done"
    /\ Len(mApi) = 12
    /\ ApiTitlesDistinct
    /\ Len(mDom) = 2
    /\ \A r \in 1..2 : SameEntry(mDom[r].title, mApi[12].title)
    /\ apiIndex = 0
    /\ domIndex = 2
    /\ matched = <<>>

\* the API items with every field but the title (and the position) blanked
TitlesOnly(apiItems) == MkApiItems([i \in 1..Len(apiItems) |-> apiItems[i].title])

\* which row was paired with which API position
Pairing(pairs) ==
    [j \in 1..Len(pairs) |-> <<pairs[j].element, pairs[j].apiItem.id>>]

\* C30: duplicate titles are resolved positionally: the row of the last
\* iteration was paired with the item at the cursor whenever their
\* normalized titles agree, even if later items carry the same title;
\* otherwise with the item at the smallest offset in 1..10 whose normalized
\* title agrees, if there is one; and the pairing is the same as on a list
\* whose items carry nothing but their titles.
C30_DuplicatesPositional ==
    /\ lastStep.kind # "none" =>
          LET row == mDom[domIndex]
              from == lastStep.from
              later == {k \in 1..10 : /\ from + k < Len(mApi)
                                      /\ SameEntry(row.title, mApi[from + k + 1].title)}
              last == matched[Len(matched)]
          IN  IF SameEntry(row.title, mApi[from + 1].title)
              THEN /\ matched # <<>>
                   /\ last = [element |-> row.element, apiItem |-> mApi[from + 1]]
                   /\ apiIndex = from + 1
              ELSE IF later # {}
              THEN /\ matched # <<>>
                   /\ last = [element |-> row.element,
                              apiItem |-> mApi[from + SetMin(later) + 1]]
                   /\ apiIndex = from + SetMin(later) + 1
              ELSE /\ apiIndex = from
                   /\ \A j \in 1..Len(matched) : matched[j].element # row.element
    /\ mpc = "done" =>
          Pairing(matched) = Pairing(matchDomToApi(mDom, TitlesOnly(mApi)))

\* DOM [A], API [quiz A, lecture A]: the row goes to the first of the two
C30_Witness ==
    /\ mpc = "done"
    /\ Len(mDom) = 1
    /\ Len(mApi) = 2
    /\ SameEntry(mApi[1].title, mApi[2].title)
    /\ mApi[1].class = "quiz"
    /\ mApi[2].class = "lecture"
    /\ matched = <<[element |-> mDom[1].element, apiItem |-> mApi[1]]>>

\* C26: matcher edge cases: no rows give no pairs; no API items give no
\* pairs; and once the cursor has reached length(apiItems) the loop stops:
\* the last pair is the one that consumed the last API item, and no row
\* after that pair's row is visited or paired.
C26_MatcherEdgeCases ==
    /\ matchDomToApi(<<>>, mApi) = <<>>
    /\ matchDomToApi(mDom, <<>>) = <<>>
    /\ (mDom = <<>> \/ mApi = <<>>) => matched = <<>>
    /\ (apiIndex >= Len(mApi) /\ mApi # <<>>) =>
          /\ apiIndex = Len(mApi)
          /\ matched # <<>>
          /\ matched[Len(matched)] =
                [element |-> mDom[domIndex].element, apiItem |-> mApi[Len(mApi)]]
          /\ \A j \in 1..Len(matched) : matched[j].element <= domIndex
          /\ mpc = "done" => matched = matchDomToApi(mDom, mApi)

\* DOM [A, B, B], API [A, B]: the second B row comes after the list is used up
C26_Witness ==
    /\ mpc = "done"
    /\ Len(mDom) = 3
    /\ Len(mApi) = 2
    /\ apiIndex = 2
    /\ domIndex = 2
    /\ SameEntry(mDom[3].title, mApi[2].title)
    /\ Len(matched) = 2

\* C34: match soundness: every pair emitted so far, by the direct branch or
\* by the lookahead, joins a row and an API item whose normalized titles are
\* equal.
C34_MatchSoundness ==
    \A j \in 1..Len(matched) :
        LET rows == {r \in 1..Len(mDom) : mDom[r].element = matched[j].element}
        IN  /\ rows # {}
            /\ \A r \in rows :
                  normalizeTitle(mDom[r].title) = normalizeTitle(matched[j].apiItem.title)

\* a direct and a lookahead pair whose titles are spelled differently
C34_Witness ==
    /\ mpc = "done"
    /\ Len(matched) = 2
    /\ lastStep.kind = "lookahead"
    /\ matched[1].apiItem.id = 1
    /\ \E j \in 1..2 : mDom[matched[j].element].title # matched[j].apiItem.title

SetMinOf2(a, b) == IF a <= b THEN a ELSE b

\* C33: cursor and output shape: at every point of the loop
\* 0 <= apiIndex <= length(apiItems) and the last iteration did not move the
\* cursor back; the pairs' API positions are strictly increasing and lie
\* before the cursor, their rows are strictly increasing in DOM order and
\* have been visited; so no item and no row occurs in two pairs, and there
\* are at most min(length(domRows), length(apiItems)) pairs.
C33_CursorAndOutputShape ==
    /\ 0 <= apiIndex
    /\ apiIndex <= Len(mApi)
    /\ lastStep.kind # "none" => lastStep.from <= apiIndex
    /\ \A j \in 1..Len(matched) :
          /\ matched[j].apiItem.id \in 1..apiIndex
          /\ matched[j].apiItem = mApi[matched[j].apiItem.id]
          /\ matched[j].element \in 1..domIndex
    /\ \A j \in 1..(Len(matched) - 1) :
          /\ matched[j].apiItem.id < matched[j + 1].apiItem.id
          /\ matched[j].element < matched[j + 1].element
    /\ Len(matched) <= SetMinOf2(Len(mDom), Len(mApi))

\* DOM [A, A, B], API [B, A, A]: lookahead, then direct, then nothing left
C33_Witness ==
    /\ mpc = "done"
    /\ Len(mDom) = 3
    /\ Len(mApi) = 3
    /\ Len(matched) = 2
    /\ matched[1].apiItem.id = 2
    /\ matched[2].apiItem.id = 3
    /\ matched[2].element = 2
    /\ apiIndex = 3

---------------------------------------------------------------------------
(* Properties of the passes, checked under Spec. While lastPass.ran holds, *)
(* dom is the page as the last pass left it and lastPass.before the page   *)
(* as that pass found it.                                                  *)

Range(seq) == {seq[k] : k \in 1..Len(seq)}

\* the rows of lastPass.before that the last pass could annotate: paired,
\* unmarked, with a created value and a resolvable anchor
InjectableRows ==
    {p.element : p \in {q \in Range(lastPass.matched) :
        /\ HasCreated(q.apiItem)
        /\ ~lastPass.before[q.element].marked
        /\ lastPass.before[q.element].anchor = "row"}}

PassKeepsRows == Len(dom) = Len(lastPass.before)

\* C6: idempotent injection: a pass that runs with no host change since the
\* pass before it writes nothing, and after any pass no row holds two
\* annotations: every row the pass could annotate, and every row annotated
\* before, holds exactly one.
C6_IdempotentInjection ==
    lastPass.ran =>
        /\ PassKeepsRows
        /\ \A i \in 1..Len(dom) : Len(dom[i].annots) <= 1
        /\ \A i \in InjectableRows : Len(dom[i].annots) = 1
        /\ lastPass.quiet =>
              /\ dom = lastPass.before
              /\ stats = lastPass.statsBefore
              /\ lastPass.wrote = {}
              /\ ~lastPass.widget

\* a second pass over two rows, both annotated by the first
C6_Witness ==
    /\ lastPass.ran
    /\ lastPass.quiet
    /\ Len(dom) = 2
    /\ Len(lastPass.matched) = 2
    /\ \A i \in 1..2 : dom[i].marked /\ Len(dom[i].annots) = 1

\* a step of the host page (every host change resets lastPass)
HostStep == ~lastPass'.ran /\ (dom' # dom \/ stats' # stats)

\* C7: marker monotonicity: no step of this system unsets the marker of a
\* row or touches the annotation of a marked row, and a pass never calls
\* the builder for a row it found marked.
C7_MarkerMonotone ==
    [][~HostStep =>
        /\ Len(dom') = Len(dom)
        /\ \A i \in 1..Len(dom) :
              dom[i].marked =>
                /\ dom'[i].marked
                /\ dom'[i].annots = dom[i].annots
                /\ (lastPass'.ran /\ lastPass' # lastPass) =>
                      i \notin Range(lastPass'.built)
      ]_vars

\* a later pass has paired a row that an earlier pass marked
C7_Witness ==
    /\ lastPass.ran
    /\ \E p \in Range(lastPass.matched) :
        /\ lastPass.before[p.element].marked
        /\ dom[p.element].marked
        /\ HasCreated(p.apiItem)
        /\ lastPass.before[p.element].anchor = "row"

ClearMarkers(d) == [i \in 1..Len(d) |-> [d[i] EXCEPT !.marked = FALSE]]

\* C8: a row that carries the marker when a pass runs: the builder is not
\* called for it and the row is left as it was, while the pass pairs the
\* rows exactly as it would with every marker cleared, so the rows after it
\* meet the same API items.
C8_MarkedRowSkippedButPaired ==
    lastPass.ran =>
        /\ PassKeepsRows
        /\ \A i \in 1..Len(lastPass.before) :
              lastPass.before[i].marked =>
                /\ i \notin Range(lastPass.built)
                /\ dom[i] = lastPass.before[i]
        /\ lastPass.matched = MatchedOf(lectures, ClearMarkers(lastPass.before))

\* the first row was marked before the pass and is paired; the second row,
\* paired after it, is annotated by this pass
C8_Witness ==
    /\ lastPass.ran
    /\ Len(lastPass.before) = 2
    /\ lastPass.before[1].marked
    /\ ~lastPass.before[2].marked
    /\ Len(lastPass.matched) = 2
    /\ lastPass.matched[1].element = 1
    /\ lastPass.matched[2].element = 2
    /\ lastPass.built = <<2>>
    /\ dom[2].marked

\* the list with every created value replaced by a timestamp
WithTimestamps(items) ==
    [i \in 1..Len(items) |-> [items[i] EXCEPT !.created = Iso(2020, 6, 15, 12)]]

PairIds(pairs) == [k \in 1..Len(pairs) |-> <<pairs[k].element, pairs[k].apiItem.id>>]

\* C9: a row paired with an item whose created value is absent or empty
\* gets no annotation and no marker, and the item is consumed all the same:
\* the pass pairs the rows with the same items as if every item had a
\* timestamp.
C9_MissingCreated ==
    lastPass.ran =>
        /\ PassKeepsRows
        /\ \A p \in Range(lastPass.matched) :
              ~HasCreated(p.apiItem) =>
                /\ dom[p.element] = lastPass.before[p.element]
                /\ p.element \notin Range(lastPass.built)
        /\ PairIds(lastPass.matched) =
              PairIds(MatchedOf(WithTimestamps(lectures), lastPass.before))

\* the first row is paired with an item without created value and stays
\* bare; the second row is annotated from the next item
C9_Witness ==
    /\ lastPass.ran
    /\ Len(lastPass.matched) = 2
    /\ ~HasCreated(lastPass.matched[1].apiItem)
    /\ lastPass.matched[1].element = 1
    /\ ~dom[1].marked /\ dom[1].annots = <<>>
    /\ lastPass.matched[2].element = 2
    /\ lastPass.matched[2].apiItem.id = lastPass.matched[1].apiItem.id + 1
    /\ ~lastPass.before[2].marked
    /\ dom[2].marked

\* C10: anchor-resolution failure: a paired row whose append target does not
\* resolve is left as it was (no marker), nothing is thrown by the injector
\* (a pass throws only where the matcher does), and every other row the pass
\* could annotate is annotated and marked.
C10_AnchorFailure ==
    lastPass.ran =>
        /\ PassKeepsRows
        /\ lastPass.threw =>
              matchThrows(getDomItems(lastPass.before), getContentItems(lectures))
        /\ \A p \in Range(lastPass.matched) :
              lastPass.before[p.element].anchor # "row" =>
                /\ dom[p.element] = lastPass.before[p.element]
                /\ ~dom[p.element].marked
        /\ \A i \in InjectableRows :
              /\ dom[i].marked
              /\ Len(dom[i].annots) = Len(lastPass.before[i].annots) + 1
              /\ i \in lastPass.wrote

\* the first paired row has no content container, the second is annotated
C10_Witness ==
    /\ lastPass.ran
    /\ Len(lastPass.matched) = 2
    /\ lastPass.matched[1].element = 1
    /\ HasCreated(lastPass.matched[1].apiItem)
    /\ lastPass.before[1].anchor = "none"
    /\ ~dom[1].marked
    /\ lastPass.built = <<1, 2>>
    /\ lastPass.wrote = {2}
    /\ dom[2].marked

\* C11: the injector's only skip conditions are the marker and a missing
\* created value: of the pairs of a pass, exactly those whose row was
\* unmarked, whose item has a non-empty created value and whose anchor
\* resolves are appended to, whatever the item's class.
C11_OnlySkipConditions ==
    lastPass.ran =>
        \A p \in Range(lastPass.matched) :
            LET row == lastPass.before[p.element]
            IN  /\ p.element \in lastPass.wrote
                    <=> (~row.marked /\ p.apiItem.created.kind \notin {"absent", "empty"}
                         /\ row.anchor = "row")
                /\ p.element \in lastPass.wrote =>
                    Len(dom[p.element].annots) = Len(row.annots) + 1

\* rows paired with a lecture and with a quiz are both annotated in one pass
C11_Witness ==
    /\ lastPass.ran
    /\ Len(lastPass.matched) = 2
    /\ lastPass.matched[1].apiItem.class = "lecture"
    /\ lastPass.matched[2].apiItem.class = "quiz"
    /\ lastPass.wrote = {1, 2}
    /\ \A i \in 1..2 : dom[i].marked /\ Len(dom[i].annots) = 1

\* the text "M/YYYY"
DateText(m, y) == [valid |-> TRUE, month |-> m, year |-> y]

\* the annotation a pass appended to row e
Appended(e) == dom[e].annots[Len(dom[e].annots)]

Malformed(c) == c.kind \in {"absent", "empty", "garbage"}

\* C13 (as the specification states it): malformed API payloads fail by
\* omission: a row paired with an item whose created value is absent, empty
\* or no parseable timestamp gets no annotation, and no row ever displays
\* the garbage date "NaN/NaN".
C13_AsStated ==
    lastPass.ran =>
        /\ \A p \in Range(lastPass.matched) :
              Malformed(p.apiItem.created) => p.element \notin lastPass.wrote
        /\ \A i \in 1..Len(dom) :
              \A k \in 1..Len(dom[i].annots) : dom[i].annots[k].text.valid

\* the items of a list that are no chapters, first to last
RECURSIVE NonChapters(_)
NonChapters(items) ==
    IF items = <<>> THEN <<>>
    ELSE (IF Head(items).class = "chapter" THEN <<>> ELSE <<Head(items)>>)
         \o NonChapters(Tail(items))

\* C14: chapter exclusion: the content-item filter returns exactly the items
\* whose class is not "chapter", in their original order, and the matcher of
\* a pass sees only that list: no pair holds a chapter, and the rows are
\* paired as they are against the list with the chapters removed.
C14_ChapterExclusion ==
    lastPass.ran =>
        /\ getContentItems(lectures) = NonChapters(lectures)
        /\ \A p \in Range(lastPass.matched) : p.apiItem.class # "chapter"
        /\ lastPass.matched =
              matchDomToApi(getDomItems(lastPass.before), NonChapters(lectures))

\* API [chapter, lecture] of one title, DOM [that title]: the row is paired
\* with the lecture and annotated
C14_Witness ==
    /\ lastPass.ran
    /\ Len(lectures) = 2
    /\ lectures[1].class = "chapter"
    /\ lectures[2].class = "lecture"
    /\ normalizeTitle(lectures[1].title) = normalizeTitle(lectures[2].title)
    /\ Len(dom) = 1
    /\ PairIds(lastPass.matched) = <<<<1, 2>>>>
    /\ lastPass.wrote = {1}
    /\ dom[1].marked

CallbackStep == pc = "armed" /\ records /\ ~records'
PassStep == timeout /\ ~timeout'

\* C16: trailing-edge debounce: every mutation callback replaces the pending
\* timer by a new one whose quiet period starts over, a pass runs only when
\* the quiet period has elapsed since the last callback and no mutation is
\* waiting, and a pass leaves no timer pending: a burst of mutations gives
\* exactly one pass.
C16_TrailingEdgeDebounce ==
    [][/\ CallbackStep => (timeout' /\ ~due' /\ dom' = dom /\ lastPass' = lastPass)
       /\ PassStep => (due /\ ~records /\ lastPass'.ran /\ ~due')
       /\ (lastPass'.ran /\ lastPass' # lastPass) => PassStep
       /\ due' => timeout'
      ]_vars

\* the timer of main() and the timer of a mutation callback that replaced
\* it gave one pass, the first of the page view, which annotated two rows
C16_Witness ==
    /\ lastPass.ran
    /\ lastPass.trigger = "postponed"
    /\ lastPass.wrote = {1, 2}
    /\ ~timeout

\* C17 (as the specification states it): teardown: once the page view is
\* invalidated the observer is disconnected and a pending timer is cleared:
\* no mutation callback and no pass runs afterwards.
C17_AsStated == [][invalidated => (~CallbackStep /\ ~PassStep)]_vars

\* the rows of the page that a pass starting now can annotate
InjectableNow ==
    {p.element : p \in {q \in Range(MatchedOf(lectures, dom)) :
        /\ HasCreated(q.apiItem)
        /\ ~dom[q.element].marked
        /\ dom[q.element].anchor = "row"}}

\* C18: no two passes overlap: a pass is one uninterrupted step. It starts
\* with no mutation callback waiting, works on the rows as they are at that
\* moment, annotates every row it can before anything else runs (any record
\* it causes is handled after it), and ends with no timer pending, so the
\* next pass needs a later expiry; a mutation callback never runs a pass.
C18_PassesDoNotOverlap ==
    [][/\ PassStep =>
            /\ due /\ ~records
            /\ lastPass'.before = dom
            /\ Len(dom') = Len(dom)
            /\ \A i \in InjectableNow : dom'[i].marked /\ i \in lastPass'.wrote
            /\ \A i \in 1..Len(dom) : i \notin InjectableNow => dom'[i] = dom[i]
            /\ records' = (lastPass'.wrote # {} \/ lastPass'.widget)
            /\ ~timeout' /\ ~due'
       /\ CallbackStep => (~PassStep /\ dom' = dom /\ stats' = stats)
      ]_vars

\* a second pass has run after the first had annotated two rows and the
\* observer had seen its writes
C18_Witness ==
    /\ lastPass.ran
    /\ lastPass.quiet
    /\ lastPass.wrote = {}
    /\ Len(lastPass.before) = 2
    /\ \A i \in 1..2 : lastPass.before[i].marked
    /\ ~timeout
    /\ ~records

\* the rows present in the page now, as (element, visible title)
RowsPresent == [i \in 1..Len(dom) |-> [element |-> i, title |-> trim(dom[i].title)]]

\* C19: every pass reads the rows afresh: the pairs of a pass are those of
\* matching the rows that are in the page at the moment the timer fires,
\* all of them and with their titles of that moment.
C19_FreshSnapshot ==
    [][PassStep =>
          /\ lastPass'.before = dom
          /\ lastPass'.matched = matchDomToApi(RowsPresent, NonChapters(lectures))
      ]_vars

\* a row the host inserted above a row that an earlier pass had annotated
\* is paired and annotated by the next pass
C19_Witness ==
    /\ lastPass.ran
    /\ ~lastPass.quiet
    /\ Len(lastPass.before) = 2
    /\ ~lastPass.before[1].marked
    /\ lastPass.before[2].marked
    /\ PairIds(lastPass.matched) = <<<<1, 1>>, <<2, 2>>>>
    /\ lastPass.wrote = {1}

\* this script has written nothing into the page
PageUntouched(d, st, hs) ==
    /\ \A i \in 1..Len(d) : ~d[i].marked /\ d[i].annots = <<>>
    /\ st.widgets = <<>>
    /\ hs = 0

\* C20: fetch failure: after the fetch has failed main() has returned for
\* good (no retry), the observer does not exist (no mutation record is ever
\* queued for it), no timer is pending, no pass has run and the page holds
\* nothing of this script, whatever the host page does afterwards.
C20_FetchFailure ==
    [][/\ pc = "failed" => pc' = "failed"
       /\ pc' = "failed" =>
            /\ ~timeout' /\ ~due' /\ ~records'
            /\ startup' = "none"
            /\ ~lastPass'.ran
            /\ lectures' = <<>>
            /\ PageUntouched(dom', stats', headStyles')
      ]_vars

\* after the failure the host page has rendered two complete rows and the
\* stats container
C20_Witness ==
    /\ pc = "failed"
    /\ Len(dom) = 2
    /\ \A i \in 1..2 : dom[i].anchor = "row"
    /\ stats.present
    /\ PageUntouched(dom, stats, headStyles)

\* C21: no course identifier: main() returns at once and stays returned: no
\* fetch is issued (no list is ever held), no observer exists (no mutation
\* record, no timer, no pass), and the page holds nothing of this script,
\* whatever the host page does afterwards.
C21_NoCourseId ==
    [][/\ (pc = "start" /\ pc' = "noCourse") => UNCHANGED <<dom, stats, headStyles>>
       /\ pc = "noCourse" => pc' = "noCourse"
       /\ pc' = "noCourse" =>
            /\ lectures' = <<>>
            /\ startup' = "none"
            /\ ~timeout' /\ ~records' /\ ~due'
            /\ ~lastPass'.ran
            /\ PageUntouched(dom', stats', headStyles')
      ]_vars

\* without a course id, the host page has since rendered a complete row and
\* the stats container, and both are bare
C21_Witness ==
    /\ pc = "noCourse"
    /\ Len(dom) >= 1
    /\ dom[1].anchor = "row"
    /\ stats.present
    /\ PageUntouched(dom, stats, headStyles)

\* C22 (as the specification states it): failure containment: whatever the
\* API list holds (items without created value, without title, without DOM
\* row) and whatever the rows lack, no pass ends in an exception that leaves
\* the timer callback.
C22_AsStated == lastPass.ran => ~lastPass.threw

----------------------------------------------------------------------------
(* Properties of the course-date content script (SpecCourse).              *)

\* C23: when fetching the course creation date rejects, main() rejects with
\* that same error once it resumes, and no date element and no connected
\* observer ever exist, whatever the host page renders.
C23_FetchRejectionPropagates ==
    fetchResult.kind = "rejected" =>
        /\ cpc \in {"resuming", "rejected"}
        /\ cpc = "rejected" =>
               outcome = [state |-> "rejected", error |-> fetchResult.error]
        /\ cpc = "resuming" => outcome.state = "pending"
        /\ dateElements = 0
        /\ ~observing
        /\ ~cRecords
        /\ cDateString = NoDate

C23_Witness ==
    /\ cpc = "rejected"
    /\ fetchResult.kind = "rejected"
    /\ outcome = [state |-> "rejected", error |-> "API Error"]
    /\ courseAnchor = "present"
    /\ dateElements = 0

----------------------------------------------------------------------------
(* Properties of fetchCurriculumItems (SpecFetch).                         *)

\* the URLs that following next from u visits, at most fuel of them
RECURSIVE ChainFrom(_, _, _)
ChainFrom(pages, u, fuel) ==
    IF u = 0 \/ fuel = 0 THEN <<>>
    ELSE <<u>> \o ChainFrom(pages, pages[u].next, fuel - 1)

\* the chain of next URLs ends in null: it does so without visiting a page twice
RECURSIVE EndsWithin(_, _, _)
EndsWithin(pages, u, fuel) ==
    \/ u = 0
    \/ fuel > 0 /\ EndsWithin(pages, pages[u].next, fuel - 1)

ChainFinite == EndsWithin(fPages, 1, Len(fPages))

RECURSIVE MergePages(_, _)
MergePages(pages, urls) ==
    IF urls = <<>> THEN <<>>
    ELSE pages[Head(urls)].results \o MergePages(pages, Tail(urls))

SortedDescending(items) ==
    \A i \in 1..Len(items) - 1 : items[i].sort_order >= items[i + 1].sort_order

\* the same items: every item carries an id of its own
SameItems(a, b) ==
    /\ Len(a) = Len(b)
    /\ {a[i] : i \in 1..Len(a)} = {b[i] : i \in 1..Len(b)}

OncePerPage(urls) ==
    \A i, j \in 1..Len(urls) : urls[i] = urls[j] => i = j

FetchSettled == fpc \in {"done", "rejected"}

FetchFollowsChain ==
    LET chain == ChainFrom(fPages, 1, MaxRequests)
        answered == IF fpc \in {"awaiting", "rejected"}
                    THEN SubSeq(requests, 1, Len(requests) - 1)
                    ELSE requests
    IN  /\ Len(requests) <= Len(chain)
        /\ requests = SubSeq(chain, 1, Len(requests))
        /\ allResults = MergePages(fPages, answered)
        /\ fpc = "done" =>
               /\ ChainFinite
               /\ requests = chain
               /\ OncePerPage(requests)
               /\ fReturn.state = "fulfilled"
               /\ SortedDescending(fReturn.items)
               /\ SameItems(fReturn.items, MergePages(fPages, chain))
        /\ fpc = "rejected" =>
               /\ fReturn.state = "rejected"
               /\ fReturn.error \in FetchErrors
               /\ fReturn.items = <<>>
        /\ ~FetchSettled => fReturn = NotReturned

\* C24: the call requests the first page and then each response's next URL,
\* once each, until next is null; it then returns the items of all these
\* pages, merged and sorted by sort_order descending; a rejected request
\* rejects the call; and when the chain of next URLs is finite the call
\* settles.
C24_Pagination ==
    /\ []FetchFollowsChain
    /\ ChainFinite => <>FetchSettled

C24_Witness ==
    /\ fpc = "done"
    /\ Len(requests) = 3
    /\ Len(fReturn.items) = 4
    /\ fReturn.items # allResults
    /\ \E i \in 1..3 : fReturn.items[i].sort_order = fReturn.items[i + 1].sort_order

\* C25: formatDateString gives the month (1..12) and the year of the ISO
\* timestamp it is given, for every timestamp and in every execution
\* environment: the date string main() holds is that of the fetched timestamp.
C25_AsStated ==
    (cpc = "armed" /\ fetchResult.created.kind = "iso") =>
        cDateString = [valid |-> TRUE,
                       month |-> fetchResult.created.month,
                       year |-> fetchResult.created.year]

----------------------------------------------------------------------------
(* Quiescence of the driver, checked under SpecQuiesce.                    *)

\* the host page has rendered all it will: it makes no further change
HostGoesQuiet ==
    /\ pc \in {"armed"} \cup Returned
    /\ ~hostQuiet
    /\ ~records
    /\ hostQuiet' = TRUE
    /\ UNCHANGED <<pc, tz, lectures, dom, stats, headStyles, timeout, timers, due,
                   invalidated, startup, records, lastPass, mvars, cvars, fvars>>

\* the lists drawn for the runs to quiescence: every list of at most one
\* item, and the two-item lists of the first two pool items
QuiesceLists ==
    {l \in CurriculumLists :
        \/ Len(l) <= 1
        \/ \A i \in 1..Len(l) : l[i].class = "lecture" /\ l[i].title = Title(1, 0)}

NextQuiesce ==
    \/ MainNoCourseId
    \/ MainFetch
    \/ FetchRejected
    \/ FetchResolved /\ lectures' \in QuiesceLists
    \/ HostInsertRow
    \/ HostRemoveRow
    \/ HostRenderAnchor
    \/ HostRenderStats
    \/ HostGoesQuiet
    \/ RunInjection
    \/ QuietPeriodElapses
    \/ TimerFires

\* TimerFires is enabled exactly in these states, and each of its steps
\* leaves them
TimerCanFire == pc = "armed" /\ timeout /\ due /\ ~records

\* fairness: main() runs on and its fetch settles; queued mutation records
\* are delivered to the observer callback; time passes; a timer that has
\* expired runs its callback (WF_vars(TimerFires), written out: the timer
\* does not stay expired for ever)
SpecQuiesce ==
    /\ Init
    /\ [][NextQuiesce]_vars
    /\ WF_vars(MainNoCourseId \/ MainFetch)
    /\ WF_vars(FetchRejected \/ (FetchResolved /\ lectures' \in QuiesceLists))
    /\ WF_vars(RunInjection)
    /\ WF_vars(QuietPeriodElapses)
    /\ []<>~TimerCanFire

\* a pass run now would write nothing: no row would be annotated and no
\* widget inserted
FurtherPassWritesNothing ==
    LET st == injectDates(lectures, dom, tz)
    IN  /\ st.wrote = {}
        /\ st.dom = dom
        /\ st.threw \/ ~WidgetDue(stats)

Quiescent ==
    /\ pc \in {"armed"} \cup Returned
    /\ ~timeout
    /\ ~records
    /\ pc = "armed" => FurtherPassWritesNothing

\* C28: self-triggering quiesces: if the host page stops mutating the DOM, then from some point on no timer is pending, no
\* mutation record is waiting and a further pass would write nothing; so
\* only finitely many passes run.
C28_Quiesces == (<>hostQuiet) => <>[]Quiescent

\* a pass wrote, its own mutation triggered a second pass, which wrote
\* nothing and left no timer
C28_Witness ==
    /\ hostQuiet
    /\ Quiescent
    /\ pc = "armed"
    /\ lastPass.ran
    /\ lastPass.quiet
    /\ lastPass.wrote = {}
    /\ \E i \in 1..Len(dom) : dom[i].marked

----------------------------------------------------------------------------
(* Further properties of the passes, checked under Spec.                   *)

\* C31: the curriculum list is fetched once, before the driver is armed, and
\* held unchanged from then on: the fetch is issued only by main() at its
\* start and main() never returns there, the held list changes only when
\* that fetch resolves, the driver is armed only by that step, and every
\* pass pairs the rows with the held list and leaves the list and main()'s
\* position as they are.
C31_FetchedOnceHeldUnchanged ==
    [][/\ pc' = "start" => pc = "start"
       /\ (pc' = "fetching" /\ pc # "fetching") => pc = "start"
       /\ lectures' # lectures => (pc = "fetching" /\ lectures = <<>> /\ ~timeout)
       /\ (pc' = "armed" /\ pc # "armed") => (pc = "fetching" /\ lectures' # <<>>)
       /\ pc = "armed" => (pc' = "armed" /\ lectures' = lectures)
       /\ PassStep =>
             /\ lectures' = lectures
             /\ pc' = pc
             /\ lastPass'.matched = MatchedOf(lectures, dom)
      ]_vars

\* a second pass on a held list that contains a chapter
C31_Witness ==
    /\ pc = "armed"
    /\ lastPass.ran
    /\ lastPass.quiet
    /\ Len(lectures) = 2
    /\ \E i \in 1..2 : lectures[i].class = "chapter"
    /\ lastPass.matched # <<>>

\* C32: build-then-mark: appending the annotation and setting the marker
\* happen in one uninterrupted step, so in every state a marked row holds
\* exactly one annotation, a date element, and a row without the marker
\* holds none (the host removes whole rows only, never a row's children).
C32_BuildThenMark ==
    \A i \in 1..Len(dom) :
        /\ dom[i].marked =>
              /\ Len(dom[i].annots) = 1
              /\ dom[i].annots[1].tag = "span"
              /\ dom[i].anchor = "row"
        /\ ~dom[i].marked => dom[i].annots = <<>>

\* after a pass one row is marked and annotated, the other could not be
C32_Witness ==
    /\ lastPass.ran
    /\ Len(dom) = 2
    /\ dom[1].marked
    /\ Len(dom[1].annots) = 1
    /\ ~dom[2].marked
    /\ 2 \in Range(lastPass.built)

\* C35: after a pass on the settled DOM, every annotated row that the pass
\* paired with an API item shows the date of that item.
C35_AsStated ==
    (lastPass.ran /\ lastPass.quiet) =>
        \A p \in Range(lastPass.matched) :
            dom[p.element].annots # <<>> =>
                /\ HasCreated(p.apiItem)
                /\ dom[p.element].annots[1] =
                      createLectureDateElement(formatDateString(p.apiItem.created, tz))

----------------------------------------------------------------------------
(* Eventual annotation, checked under SpecQuiesce.                          *)

\* every row the last pass paired with an item that has a created value,
\* and whose row div is rendered, carries an annotation and the marker
PairedRowsAnnotated ==
    \A p \in Range(lastPass.matched) :
        (HasCreated(p.apiItem) /\ dom[p.element].anchor = "row") =>
            /\ dom[p.element].marked
            /\ dom[p.element].annots # <<>>

\* C36: eventual annotation: if the driver is armed and the host page stops
\* mutating the DOM, then eventually and from then on a pass has run on the
\* final DOM (no host change since), and every row it paired with an item
\* having a created value and a resolvable anchor carries an annotation and
\* the marker.
C36_EventualAnnotation ==
    (<>(hostQuiet /\ pc = "armed")) => <>[](lastPass.ran /\ PairedRowsAnnotated)

\* the host has stopped; the pass on the final DOM annotated a row that an
\* earlier pass on a partial DOM had not seen
C36_Witness ==
    /\ hostQuiet
    /\ pc = "armed"
    /\ lastPass.ran
    /\ lastPass.wrote # {}
    /\ lastPass.trigger = "done"
    /\ PairedRowsAnnotated
    /\ \E p \in Range(lastPass.matched) :
          p.element \in lastPass.wrote /\ dom[p.element].marked

----------------------------------------------------------------------------
(* The debounce timer, checked under Spec.                                 *)

\* C37: at most one debounce timer is pending in every reachable state:
\* every setTimeout of the driver follows a clearTimeout of the timer before
\* it, so the pending timers are exactly the one the variable timeout names,
\* if any, whatever the order of mutation callbacks, initial run and
\* expirations.
C37_AtMostOneTimer ==
    /\ timers \in {0, 1}
    /\ timeout <=> timers = 1
    /\ due => timers = 1
    /\ pc # "armed" => timers = 0

\* after a first pass, a new timer has expired and a mutation record arrived
\* before its task ran
C37_Witness ==
    /\ pc = "armed"
    /\ startup = "done"
    /\ timers = 1
    /\ due
    /\ records

----------------------------------------------------------------------------
(* The year histogram, checked under Spec.                                 *)

\* C38: over any sequence of passes the curriculum-stats container holds at
\* most one "Lectures by Year" widget, and a pass that finds no container,
\* or a container that already holds the widget, leaves the container and
\* the document head as they were.
C38_WidgetIdempotence ==
    /\ [](Len(stats.widgets) <= 1)
    /\ [][(PassStep /\ (~stats.present \/ stats.widgets # <<>>))
            => (stats' = stats /\ headStyles' = headStyles /\ ~lastPass'.widget)]_vars

\* a pass has just run on a container that already held the widget
C38_Witness ==
    /\ lastPass.ran
    /\ ~lastPass.threw
    /\ lastPass.statsBefore.present
    /\ Len(lastPass.statsBefore.widgets) = 1
    /\ Len(stats.widgets) = 1

----------------------------------------------------------------------------
(* The observer-based course-date script, checked under SpecCourse.        *)

\* C39: the document never holds more than one element with the id
\* udemy-course-creation-date, whatever the host and the script do; no step
\* adds a date element when one exists or when the anchor or its parent is
\* missing; once the beforeunload handler has disconnected the observer, the
\* observer stays disconnected with no records queued, and no step adds a
\* date element.
C39_CourseDateSingleton ==
    /\ [](dateElements <= 1)
    /\ [](unloaded => (~observing /\ ~cRecords))
    /\ [][(dateElements > 0 \/ courseAnchor # "present" \/ unloaded)
            => dateElements' <= dateElements]_vars
    /\ [][unloaded => unloaded']_vars

\* the observer was disconnected with the date in place, the host then
\* dropped the date and left the anchor, and the date has not come back
C39_Witness ==
    /\ cpc = "armed"
    /\ unloaded
    /\ cDateString.valid
    /\ courseAnchor = "present"
    /\ dateElements = 0

===========================================================================
